---- MODULE Spec2Model ----
(***************************************************************************)
(* Model of scripts/extractor_ocr.py (aSipiere/rygonet): the line aligner  *)
(* match_ocr_to_pdf_lines, the line-level OCR corrector                    *)
(* fix_ocr_errors_contextual and the card grammar parser parse_card_text.  *)
(*                                                                         *)
(* Text is modelled character by character: a string is a sequence of      *)
(* one-character strings.  Python's 0-based list indices are 1-based here; *)
(* the index 0 stands for Python's None where an index may be absent.      *)
(***************************************************************************)
EXTENDS Naturals, Integers, Sequences, FiniteSets, TLC

(***************************************************************************)
(* Characters                                                              *)
(***************************************************************************)
UpperLetters == <<"A","B","C","D","E","F","G","H","I","J","K","L","M",
                  "N","O","P","Q","R","S","T","U","V","W","X","Y","Z">>
LowerLetters == <<"a","b","c","d","e","f","g","h","i","j","k","l","m",
                  "n","o","p","q","r","s","t","u","v","w","x","y","z">>
Digits == {"0","1","2","3","4","5","6","7","8","9"}
Uppers == {UpperLetters[k] : k \in 1..26}
Lowers == {LowerLetters[k] : k \in 1..26}

\* the characters of a string literal
Chars(str) == [k \in 1..Len(str) |-> SubSeq(str, k, k)]

\* str.lower() on one character
LowerChar(c) ==
    IF c \in Uppers
    THEN LowerLetters[CHOOSE k \in 1..26 : UpperLetters[k] = c]
    ELSE c

\* str.upper() on one character
UpperChar(c) ==
    IF c \in Lowers
    THEN UpperLetters[CHOOSE k \in 1..26 : LowerLetters[k] = c]
    ELSE c

\* str.lower()
Lower(s) == [k \in 1..Len(s) |-> LowerChar(s[k])]

\* str.upper()
Upper(s) == [k \in 1..Len(s) |-> UpperChar(s[k])]

\* regex \s on the characters the model uses
IsSpace(c) == c = " "

\* regex \w
IsWordChar(c) == c \in Uppers \cup Lowers \cup Digits \cup {"_"}

\* s[a..b] (1-based, inclusive), empty when a > b
Slice(s, a, b) == IF a > b THEN <<>> ELSE SubSeq(s, a, b)

\* str.strip(): leading and trailing whitespace removed
RECURSIVE LStrip(_)
LStrip(s) == IF s # <<>> /\ IsSpace(Head(s)) THEN LStrip(Tail(s)) ELSE s

RECURSIVE RStrip(_)
RStrip(s) ==
    IF s # <<>> /\ IsSpace(s[Len(s)]) THEN RStrip(Slice(s, 1, Len(s) - 1)) ELSE s

Strip(s) == RStrip(LStrip(s))

\* re.sub(r'\s+', ' ', s): every maximal run of whitespace becomes one space
RECURSIVE CollapseSpaces(_)
CollapseSpaces(s) ==
    IF s = <<>> THEN <<>>
    ELSE IF IsSpace(Head(s))
         THEN <<" ">> \o CollapseSpaces(LStrip(s))
         ELSE <<Head(s)>> \o CollapseSpaces(Tail(s))

(***************************************************************************)
(* Regular expressions (Python's re): a pattern is a sequence of nodes, a  *)
(* match state is a position and the captured groups.  The nodes of a      *)
(* pattern are applied in sequence to the list of candidate states, kept   *)
(* in the order in which Python's backtracking matcher tries them, so the  *)
(* first state that survives the whole pattern is Python's match.          *)
(***************************************************************************)
\* no upper limit on a repetition (+, *)
Many == 999

\* Python's None for a group that did not take part in the match
NoneVal == <<"None">>

\* a character class (negated or not) repeated lo..hi times, greedy or lazy
Cls(cs, neg, lo, hi, lazy) ==
    [k |-> "c", cs |-> cs, neg |-> neg, lo |-> lo, hi |-> hi, lazy |-> lazy]
One(cs) == Cls(cs, FALSE, 1, 1, FALSE)
Opt(cs) == Cls(cs, FALSE, 0, 1, FALSE)
Plus(cs) == Cls(cs, FALSE, 1, Many, FALSE)
Star(cs) == Cls(cs, FALSE, 0, Many, FALSE)
NotOne(cs) == Cls(cs, TRUE, 1, 1, FALSE)
NotPlus(cs) == Cls(cs, TRUE, 1, Many, FALSE)
NotStar(cs) == Cls(cs, TRUE, 0, Many, FALSE)
LazyNotPlus(cs) == Cls(cs, TRUE, 1, Many, TRUE)

\* a group of alternatives: q is "one", "opt" ((...)?) or "star" ((...)*);
\* name is the capture's name, "" for a group that captures nothing
Grp(name, q, alts) == [k |-> "g", name |-> name, q |-> q, alts |-> alts]
\* $, \b and (?=...)
EndOfLine == [k |-> "$"]
WordBoundary == [k |-> "b"]
LookAhead(body) == [k |-> "la", body |-> body]

\* a literal string, and the same under re.IGNORECASE
Lit(str) == [j \in 1..Len(str) |-> One({SubSeq(str, j, j)})]
CI(cs) == cs \cup {UpperChar(c) : c \in cs} \cup {LowerChar(c) : c \in cs}
LitCI(str) == [j \in 1..Len(str) |-> One(CI({SubSeq(str, j, j)}))]

\* \s, and the groups (\d+) and (?:...)
Spaces == {" "}
Digits1(name) == Grp(name, "one", << <<Plus(Digits)>> >>)
Seq1(pat) == Grp("", "one", <<pat>>)

InCls(e, c) == IF e.neg THEN c \notin e.cs ELSE c \in e.cs

\* the longest run (at most e.hi) of characters of the class from position i
RunOf(e, s, i) ==
    LET cap == IF Len(s) - i + 1 < e.hi THEN Len(s) - i + 1 ELSE e.hi
    IN  CHOOSE n \in 0..cap :
           /\ \A j \in 0..(n - 1) : InCls(e, s[i + j])
           /\ n = cap \/ ~InCls(e, s[i + n])

\* \b at position i: exactly one of s[i-1], s[i] is a word character
IsBoundary(s, i) ==
    LET W(j) == j >= 1 /\ j <= Len(s) /\ IsWordChar(s[j])
    IN  W(i - 1) # W(i)

RECURSIVE Thread(_, _, _, _, _)
RECURSIVE Each(_, _, _, _, _)
RECURSIVE Alts(_, _, _, _, _)
RECURSIVE Repeat(_, _, _)
RECURSIVE EachRepeat(_, _, _, _, _)

\* the candidates of a repeated class whose longest run is mx
ClsStates(e, st, mx) ==
    IF mx < e.lo THEN <<>>
    ELSE [n \in 1..(mx - e.lo + 1) |->
             [i |-> st.i + (IF e.lazy THEN e.lo + n - 1 ELSE mx - n + 1),
              caps |-> st.caps]]

\* the candidate states after node e from state st, in priority order
StepOne(e, s, st) ==
    CASE e.k = "c" -> ClsStates(e, st, RunOf(e, s, st.i))
      [] e.k = "g" ->
           IF e.q = "star" THEN Repeat(e, s, st)
           ELSE Alts(e, s, st, 1, Len(e.alts))
                  \o (IF e.q = "opt" THEN <<st>> ELSE <<>>)
      [] e.k = "$" -> IF st.i = Len(s) + 1 THEN <<st>> ELSE <<>>
      [] e.k = "b" -> IF IsBoundary(s, st.i) THEN <<st>> ELSE <<>>
      [] e.k = "la" ->
           IF Thread(e.body, s, <<st>>, 1, Len(e.body)) # <<>> THEN <<st>> ELSE <<>>

\* node e applied to each state of S[lo..hi], results concatenated in order
Each(e, s, S, lo, hi) ==
    IF lo > hi THEN <<>>
    ELSE IF lo = hi THEN StepOne(e, s, S[lo])
    ELSE Each(e, s, S, lo, (lo + hi) \div 2)
           \o Each(e, s, S, (lo + hi) \div 2 + 1, hi)

\* the nodes pat[lo..hi] applied in sequence to the states S
Thread(pat, s, S, lo, hi) ==
    IF lo > hi \/ S = <<>> THEN S
    ELSE IF lo = hi THEN Each(pat[lo], s, S, 1, Len(S))
    ELSE Thread(pat, s, Thread(pat, s, S, lo, (lo + hi) \div 2),
                (lo + hi) \div 2 + 1, hi)

\* the states R reached through a group entered at st, with its capture
Captured(g, s, st, R) ==
    IF g.name = "" THEN R
    ELSE [n \in 1..Len(R) |->
            [i |-> R[n].i,
             caps |-> [R[n].caps EXCEPT ![g.name] = Slice(s, st.i, R[n].i - 1)]]]

\* the alternatives lo..hi of group g from state st
Alts(g, s, st, lo, hi) ==
    IF lo > hi THEN <<>>
    ELSE IF lo = hi
    THEN Captured(g, s, st, Thread(g.alts[lo], s, <<st>>, 1, Len(g.alts[lo])))
    ELSE Alts(g, s, st, lo, (lo + hi) \div 2)
           \o Alts(g, s, st, (lo + hi) \div 2 + 1, hi)

\* the states of S that lie beyond position i
Beyond(S, i) == SelectSeq(S, LAMBDA r : r.i > i)

\* (...)* from state st: one more round where it consumes something, then
\* again; or stop here
Repeat(g, s, st) ==
    EachRepeat(g, s, Beyond(Alts(g, s, st, 1, Len(g.alts)), st.i), 1, Many)
        \o <<st>>

EachRepeat(g, s, S, lo, hi) ==
    IF lo > hi \/ lo > Len(S) THEN <<>>
    ELSE IF hi > Len(S) THEN EachRepeat(g, s, S, lo, Len(S))
    ELSE IF lo = hi THEN Repeat(g, s, S[lo])
    ELSE EachRepeat(g, s, S, lo, (lo + hi) \div 2)
           \o EachRepeat(g, s, S, (lo + hi) \div 2 + 1, hi)

NoMatch == [ok |-> FALSE, at |-> 0, i |-> 0, caps |-> <<>>]

\* Python's match among the candidates R of a match started at position at:
\* the first one (at: where it starts, i: the position after it)
FirstOf(R, at) ==
    IF R = <<>> THEN NoMatch
    ELSE [ok |-> TRUE, at |-> at, i |-> R[1].i, caps |-> R[1].caps]

\* the match of pat starting at position i of s
MatchAt(pat, names, s, i) ==
    FirstOf(Thread(pat, s, <<[i |-> i, caps |-> [n \in names |-> NoneVal]]>>,
                   1, Len(pat)), i)

\* pattern.match(s): anchored at the start
ReMatch(pat, names, s) == MatchAt(pat, names, s, 1)

\* pattern.search(s): the leftmost position with a match
RECURSIVE SearchFrom(_, _, _, _)
SearchOr(pat, names, s, i, m) ==
    IF m.ok THEN m ELSE SearchFrom(pat, names, s, i + 1)
SearchFrom(pat, names, s, i) ==
    IF i > Len(s) + 1 THEN NoMatch
    ELSE SearchOr(pat, names, s, i, MatchAt(pat, names, s, i))
ReSearch(pat, names, s) == SearchFrom(pat, names, s, 1)

\* a replacement template: a sequence of strings, where "\\g" stands for the
\* text of group g and any other string for itself
RECURSIVE Expand(_, _)
Expand(tmpl, caps) ==
    IF tmpl = <<>> THEN <<>>
    ELSE (IF Len(tmpl[1]) = 2 /\ SubSeq(tmpl[1], 1, 1) = "\\"
          THEN caps[SubSeq(tmpl[1], 2, 2)]
          ELSE Chars(tmpl[1])) \o Expand(Tail(tmpl), caps)

\* re.sub(pat, tmpl, s) for a pattern that matches no empty string:
\* leftmost, non-overlapping matches, each replaced by the expanded template
RECURSIVE SubFrom(_, _, _, _, _)
SubOr(pat, names, s, tmpl, i, m) ==
    IF m.ok /\ m.i > i
    THEN Expand(tmpl, m.caps) \o SubFrom(pat, names, s, tmpl, m.i)
    ELSE <<s[i]>> \o SubFrom(pat, names, s, tmpl, i + 1)
SubFrom(pat, names, s, tmpl, i) ==
    IF i > Len(s) THEN <<>>
    ELSE SubOr(pat, names, s, tmpl, i, MatchAt(pat, names, s, i))
ReSub(pat, names, s, tmpl) == SubFrom(pat, names, s, tmpl, 1)

\* s.replace(old, new): leftmost, non-overlapping occurrences
StrReplace(s, old, new) == ReSub(Lit(old), {}, s, <<new>>)

\* old in s
Contains(s, old) == ReSearch(Lit(old), {}, s).ok

\* s.startswith(p), s.endswith(p)
StartsWith(s, p) == Len(s) >= Len(p) /\ Slice(s, 1, Len(p)) = Chars(p)
EndsWith(s, p) ==
    Len(s) >= Len(p) /\ Slice(s, Len(s) - Len(p) + 1, Len(s)) = Chars(p)

(***************************************************************************)
(* Line-level OCR corrector: fix_ocr_errors_contextual.  Its substitutions *)
(* are applied in the order of the code, each to the result of the one     *)
(* before.                                                                 *)
(***************************************************************************)
\* the substitutions, in the order of the code (lines 595-642): pattern,
\* group names, replacement template
Rule(pat, names, tmpl) == [pat |-> pat, names |-> names, tmpl |-> tmpl]

FixRules == <<
    \* $ -> S
    Rule(Lit("$") \o <<Digits1("1")>> \o Lit("\""), {"1"}, <<"S", "\\1", "\"">>),
    Rule(Lit("$") \o <<Digits1("1")>> \o Lit("/"), {"1"}, <<"S", "\\1", "/">>),
    Rule(<<One({","}), Star(Spaces), One({"$"}), Digits1("1")>>, {"1"},
         <<", S", "\\1">>),
    \* stat letters followed by numbers
    Rule(<<WordBoundary, One({"H"}), Digits1("1")>>, {"1"}, <<"H", "\\1">>),
    Rule(<<WordBoundary, One({"S"}), Digits1("1"), One({"\""})>>, {"1"},
         <<"S", "\\1", "\"">>),
    Rule(<<WordBoundary, One({"M"}), Digits1("1"), One({"\""})>>, {"1"},
         <<"M", "\\1", "\"">>),
    Rule(<<WordBoundary, One({"Q"}), Digits1("1")>>, {"1"}, <<"Q", "\\1">>),
    Rule(<<WordBoundary, One({"C"}), Digits1("1")>>, {"1"}, <<"C", "\\1">>),
    \* evasion
    Rule(<<WordBoundary>> \o Lit("El") \o <<WordBoundary>>, {}, <<"E4">>),
    Rule(<<WordBoundary>> \o Lit("EO") \o <<WordBoundary>>, {}, <<"E0">>),
    Rule(<<WordBoundary, One({"E"}), Grp("1", "one", << <<One({"l", "O"})>> >>)>>,
         {"1"}, <<"E", "\\1">>),
    \* weapon profile letters followed by numbers
    Rule(<<WordBoundary, One({"R"}), Digits1("1"), One({"\""})>>, {"1"},
         <<"R", "\\1", "\"">>),
    Rule(<<WordBoundary, One({"A"}), Digits1("1")>>, {"1"}, <<"A", "\\1">>),
    Rule(<<WordBoundary, One({"D"}), Digits1("1")>>, {"1"}, <<"D", "\\1">>),
    \* range values, longer patterns first
    Rule(Lit("Reo\""), {}, <<"R40\"">>),
    Rule(Lit("R4o\""), {}, <<"R40\"">>),
    Rule(Lit("Re\""), {}, <<"R40\"">>),
    Rule(Lit("Ro\""), {}, <<"R0\"">>),
    \* word confusions (str.replace)
    Rule(Lit(" Vec "), {}, <<" Vec ">>),
    Rule(Lit(" lnf "), {}, <<" Inf ">>),
    Rule(Lit(" Alr "), {}, <<" Air ">>),
    \* pts formatting (IGNORECASE)
    Rule(<<Digits1("1"), Star(Spaces), One(CI({"p"})), One(CI({"t", "|", "l"})),
           One(CI({"s"})), WordBoundary>>, {"1"}, <<"\\1", " pts">>),
    \* no space before class flags
    Rule(<<Grp("1", "one", <<Lit("Inf"), Lit("Vec"), Lit("Air")>>),
           Plus(Spaces), One({"("}),
           Grp("2", "one", << <<Plus({"S", "W", "C", "M", "L"})>>,
                              Lit("CAP"), Lit("CAS") >>),
           One({")"})>>, {"1", "2"}, <<"\\1", "(", "\\2", ")">>) >>

\* the rules k.. applied in turn, each to the result of the one before; no
\* rule matches in an empty line
RECURSIVE ApplyRules(_, _, _)
ApplyRules(rules, k, line) ==
    IF line = <<>> \/ k > Len(rules) THEN line
    ELSE ApplyRules(rules, k + 1,
                    ReSub(rules[k].pat, rules[k].names, line, rules[k].tmpl))

fix_ocr_errors_contextual(line) == ApplyRules(FixRules, 1, line)

(***************************************************************************)
(* Line aligner: normalize_for_matching, difflib.SequenceMatcher.ratio and *)
(* match_ocr_to_pdf_lines                                                  *)
(***************************************************************************)

\* normalize_for_matching: drop [^\w\s], collapse whitespace, strip, lower
normalize_for_matching(text) ==
    Lower(Strip(CollapseSpaces(
        SelectSeq(text, LAMBDA c : IsWordChar(c) \/ IsSpace(c)))))

\* length of the common run of a from i and b from j
RECURSIVE RunLen(_, _, _, _)
RunLen(a, b, i, j) ==
    IF i <= Len(a) /\ j <= Len(b) /\ a[i] = b[j]
    THEN 1 + RunLen(a, b, i + 1, j + 1)
    ELSE 0

\* SequenceMatcher.find_longest_match without junk: the longest common block,
\* of those the one starting earliest in a, of those the earliest in b
find_longest_match(a, b) ==
    LET Blocks == {<<i, j>> : i \in 1..Len(a), j \in 1..Len(b)}
        Size(p) == RunLen(a, b, p[1], p[2])
        Best == CHOOSE p \in Blocks :
                  \A q \in Blocks :
                     \/ Size(p) > Size(q)
                     \/ /\ Size(p) = Size(q)
                        /\ \/ p[1] < q[1]
                           \/ p[1] = q[1] /\ p[2] <= q[2]
    IN  IF Blocks = {} THEN <<1, 1, 0>> ELSE <<Best[1], Best[2], Size(Best)>>

\* sum of the sizes of SequenceMatcher.get_matching_blocks: the longest
\* block, then the same to its left and to its right
RECURSIVE MatchCount(_, _)
MatchCount(a, b) ==
    LET m == find_longest_match(a, b)
    IN  IF m[3] = 0 THEN 0
        ELSE m[3]
             + MatchCount(Slice(a, 1, m[1] - 1), Slice(b, 1, m[2] - 1))
             + MatchCount(Slice(a, m[1] + m[3], Len(a)),
                          Slice(b, m[2] + m[3], Len(b)))

\* SequenceMatcher.ratio() as the exact fraction <<2*M, T>>; 1.0 when both
\* strings are empty
Ratio(a, b) ==
    IF Len(a) + Len(b) = 0 THEN <<1, 1>>
    ELSE <<2 * MatchCount(a, b), Len(a) + Len(b)>>

\* comparison of two fractions with positive denominators
RatioGT(r, s) == r[1] * s[2] > s[1] * r[2]
RatioEQ(r, s) == r[1] * s[2] = s[1] * r[2]

\* LineBox (lines 647-652)
LineBox(text, is_bold, is_italic) ==
    [text |-> text, is_bold |-> is_bold, is_italic |-> is_italic]

(***************************************************************************)
(* Python values and string helpers used by the card parser                *)
(***************************************************************************)
\* Python values of mixed type: None, an int, a str, the two-valued pairs
None == [t |-> "None"]
IntV(n) == [t |-> "int", n |-> n]
StrV(s) == [t |-> "str", s |-> s]
PairV(k1, v1, k2, v2) == [t |-> "dict", k1 |-> k1, v1 |-> v1, k2 |-> k2, v2 |-> v2]

\* curly quotes, each one character of a line
CurlyDouble == {"u201c", "u201d"}
CurlySingle == {"u2018", "u2019"}

\* norm(s): curly quotes to straight quotes
norm(s) ==
    [k \in 1..Len(s) |->
        IF s[k] \in CurlyDouble THEN "\""
        ELSE IF s[k] \in CurlySingle THEN "'"
        ELSE s[k]]

\* str.isdigit()
IsDigitStr(s) == s # <<>> /\ \A k \in 1..Len(s) : s[k] \in Digits

\* int(s) for a string of decimal digits
DigitValue(c) == CHOOSE d \in 0..9 : <<"0","1","2","3","4","5","6","7","8","9">>[d + 1] = c
RECURSIVE ParseInt(_)
ParseInt(s) ==
    IF s = <<>> THEN 0
    ELSE 10 * ParseInt(Slice(s, 1, Len(s) - 1)) + DigitValue(s[Len(s)])

\* c in s
HasChar(s, c) == \E k \in 1..Len(s) : s[k] = c

\* s.find(c) + 1, 0 when c is not in s
FindChar(s, c) ==
    IF HasChar(s, c) THEN CHOOSE k \in 1..Len(s) : s[k] = c /\ \A j \in 1..(k - 1) : s[j] # c
    ELSE 0

\* s.split(c): the pieces between the occurrences of c
RECURSIVE SplitOn(_, _)
SplitOn(s, c) ==
    IF ~HasChar(s, c) THEN <<s>>
    ELSE <<Slice(s, 1, FindChar(s, c) - 1)>>
            \o SplitOn(Slice(s, FindChar(s, c) + 1, Len(s)), c)

\* s.split(c, 1) when c is in s: the text before and after the first c
Before(s, c) == Slice(s, 1, FindChar(s, c) - 1)
After(s, c) == Slice(s, FindChar(s, c) + 1, Len(s))

\* s.strip(chars), s.rstrip(chars)
RECURSIVE LStripChars(_, _)
LStripChars(s, cs) ==
    IF s # <<>> /\ Head(s) \in cs THEN LStripChars(Tail(s), cs) ELSE s
RECURSIVE RStripChars(_, _)
RStripChars(s, cs) ==
    IF s # <<>> /\ s[Len(s)] \in cs THEN RStripChars(Slice(s, 1, Len(s) - 1), cs)
    ELSE s
StripChars(s, cs) == RStripChars(LStripChars(s, cs), cs)

\* sep.join(parts)
RECURSIVE Join(_, _)
Join(parts, sep) ==
    IF parts = <<>> THEN <<>>
    ELSE IF Len(parts) = 1 THEN parts[1]
    ELSE parts[1] \o sep \o Join(Tail(parts), sep)

\* s.split(): the words between runs of whitespace
SplitWords(s) == SelectSeq(SplitOn(s, " "), LAMBDA w : w # <<>>)

\* word.title() for a word of letters: first letter upper, the rest lower
Title(w) ==
    [k \in 1..Len(w) |->
        IF k = 1 \/ ~(w[k - 1] \in Uppers \cup Lowers) THEN UpperChar(w[k])
        ELSE LowerChar(w[k])]

\* mutant of dedupe_preserve_order: the last occurrence of an item is kept
RECURSIVE dedupe_keep_last(_)
dedupe_keep_last(items) ==
    IF items = <<>> THEN <<>>
    ELSE IF \E k \in 2..Len(items) : items[k] = items[1]
         THEN dedupe_keep_last(Tail(items))
         ELSE <<items[1]>> \o dedupe_keep_last(Tail(items))

\* dedupe_preserve_order(items)
RECURSIVE dedupe_preserve_order(_)
dedupe_preserve_order(items) ==
    IF items = <<>> THEN <<>>
    ELSE LET front == dedupe_preserve_order(Slice(items, 1, Len(items) - 1))
             item == items[Len(items)]
         IN  IF \E k \in 1..Len(front) : front[k] = item THEN front
             ELSE Append(front, item)

\* one '/'-separated part of an accuracy (lines 136-152)
parse_acc_part(p) ==
    LET part == Strip(p)
    IN  IF Lower(part) \in {Chars("xx"), Chars("x")} THEN StrV(Chars("xx"))
        ELSE IF part = Chars("++") THEN StrV(Chars("++"))
        ELSE IF part = Chars("*") THEN StrV(Chars("*"))
        ELSE IF IsDigitStr(RStripChars(part, {"+"}))
             THEN IntV(ParseInt(RStripChars(part, {"+"})))
             ELSE None

\* parse_acc returning the token itself where the code returns None
parse_acc_unparsed_kept(acc) ==
    LET a == Strip(acc)
        parsed == [k \in 1..Len(SplitOn(a, "/")) |-> parse_acc_part(SplitOn(a, "/")[k])]
        single == IF a # <<>> /\ a[Len(a)] = "+" THEN RStripChars(a, {"+"}) ELSE a
    IN  IF a = <<>> THEN StrV(a)
        ELSE IF Lower(a) \in {Chars("xx"), Chars("x")} THEN StrV(Chars("xx"))
        ELSE IF a = Chars("++") THEN StrV(Chars("++"))
        ELSE IF a = Chars("*") THEN StrV(Chars("*"))
        ELSE IF HasChar(a, "/")
             THEN IF \E k \in 1..Len(parsed) : parsed[k] = None THEN StrV(a)
                  ELSE IF Len(parsed) = 2
                       THEN PairV("stationary", parsed[1], "moving", parsed[2])
                       ELSE IF Len(parsed) = 1 THEN parsed[1] ELSE StrV(a)
        ELSE IF IsDigitStr(single) THEN IntV(ParseInt(single))
        ELSE StrV(a)

\* mutant of parse_acc: an 'A/B' token is flattened to its first value
parse_acc_flattened(acc) ==
    LET a == Strip(acc)
        parsed == [k \in 1..Len(SplitOn(a, "/")) |-> parse_acc_part(SplitOn(a, "/")[k])]
        single == IF a # <<>> /\ a[Len(a)] = "+" THEN RStripChars(a, {"+"}) ELSE a
    IN  IF a = <<>> THEN None
        ELSE IF Lower(a) \in {Chars("xx"), Chars("x")} THEN StrV(Chars("xx"))
        ELSE IF a = Chars("++") THEN StrV(Chars("++"))
        ELSE IF a = Chars("*") THEN StrV(Chars("*"))
        ELSE IF HasChar(a, "/")
             THEN IF \E k \in 1..Len(parsed) : parsed[k] = None THEN None
                  ELSE IF Len(parsed) \in {1, 2} THEN parsed[1] ELSE None
        ELSE IF IsDigitStr(single) THEN IntV(ParseInt(single))
        ELSE None

\* parse_acc(acc)
parse_acc(acc) ==
    LET a == Strip(acc)
        parsed == [k \in 1..Len(SplitOn(a, "/")) |-> parse_acc_part(SplitOn(a, "/")[k])]
        single == IF a # <<>> /\ a[Len(a)] = "+" THEN RStripChars(a, {"+"}) ELSE a
    IN  IF a = <<>> THEN None
        ELSE IF Lower(a) \in {Chars("xx"), Chars("x")} THEN StrV(Chars("xx"))
        ELSE IF a = Chars("++") THEN StrV(Chars("++"))
        ELSE IF a = Chars("*") THEN StrV(Chars("*"))
        ELSE IF HasChar(a, "/")
             THEN IF \E k \in 1..Len(parsed) : parsed[k] = None THEN None
                  ELSE IF Len(parsed) = 2
                       THEN PairV("stationary", parsed[1], "moving", parsed[2])
                       ELSE IF Len(parsed) = 1 THEN parsed[1] ELSE None
        ELSE IF IsDigitStr(single) THEN IntV(ParseInt(single))
        ELSE None

\* one '/'-separated part of a strength (lines 187-195)
parse_strength_part(p) ==
    LET part == RStripChars(Strip(p), {"+"})
    IN  IF IsDigitStr(part) THEN IntV(ParseInt(part)) ELSE None

\* parse_strength(sv)
parse_strength(sv) ==
    LET s == Strip(sv)
        parsed == [k \in 1..Len(SplitOn(s, "/")) |-> parse_strength_part(SplitOn(s, "/")[k])]
    IN  IF sv = <<>> THEN None
        ELSE IF ReMatch(Lit("[D") \o <<Digits1("1")>> \o Lit("]") \o <<EndOfLine>>,
                        {"1"}, s).ok
             THEN StrV(s)
        ELSE IF HasChar(s, "/")
             THEN IF \E k \in 1..Len(parsed) : parsed[k] = None THEN None
                  ELSE IF Len(parsed) = 2
                       THEN PairV("normal", parsed[1], "halfRange", parsed[2])
                       ELSE IF Len(parsed) = 1 THEN parsed[1] ELSE None
        ELSE IF s # <<>> /\ s[Len(s)] = "+" THEN StrV(s)
        ELSE IF IsDigitStr(s) THEN IntV(ParseInt(s))
        ELSE None

\* parse_toughness_value(t)
parse_toughness_value(t) ==
    LET s == Strip(t)
    IN  IF s = <<>> THEN None
        ELSE IF s[Len(s)] \in {"-", "+"} THEN StrV(s)
        ELSE IF IsDigitStr(s) THEN IntV(ParseInt(s))
        ELSE StrV(s)

\* split_rules_smart(line): split at the commas outside parentheses
RECURSIVE SplitRulesFrom(_, _, _, _, _)
SplitRulesFrom(line, k, paren_depth, current, rules) ==
    IF k > Len(line)
    THEN IF Strip(current) # <<>> THEN Append(rules, Strip(current)) ELSE rules
    ELSE IF line[k] = "("
    THEN SplitRulesFrom(line, k + 1, paren_depth + 1, Append(current, line[k]), rules)
    ELSE IF line[k] = ")"
    THEN SplitRulesFrom(line, k + 1, paren_depth - 1, Append(current, line[k]), rules)
    ELSE IF line[k] = "," /\ paren_depth = 0
    THEN SplitRulesFrom(line, k + 1, paren_depth, <<>>,
                        IF Strip(current) # <<>> THEN Append(rules, Strip(current))
                        ELSE rules)
    ELSE SplitRulesFrom(line, k + 1, paren_depth, Append(current, line[k]), rules)

split_rules_smart(line) == SplitRulesFrom(line, 1, 0, <<>>, <<>>)

\* r'^\([^)]+\)$' and r'^[A-Z][a-z]+$'
PARENTHETICAL_RE == <<One({"("}), NotPlus({")"}), One({")"}), EndOfLine>>
CAPITALIZED_WORD_RE == <<One(Uppers), Plus(Lowers), EndOfLine>>
IsParenthetical(rule) == ReMatch(PARENTHETICAL_RE, {}, rule).ok
IsCapitalizedWord(rule) == ReMatch(CAPITALIZED_WORD_RE, {}, rule).ok

\* merge_fragmented_rules(rules): the loop from index i with merged so far
RECURSIVE MergeRulesFrom(_, _, _)
MergeRulesFrom(rules, i, merged) ==
    IF i > Len(rules) THEN merged
    ELSE IF i > 1 /\ IsParenthetical(rules[i])
    THEN MergeRulesFrom(rules, i + 1,
             [merged EXCEPT ![Len(merged)] = @ \o <<" ">> \o rules[i]])
    ELSE IF /\ i + 1 <= Len(rules)
            /\ ~EndsWith(rules[i], ")")
            /\ (IsCapitalizedWord(rules[i + 1]) \/ IsParenthetical(rules[i + 1]))
            /\ i + 2 <= Len(rules)
            /\ IsParenthetical(rules[i + 2])
    THEN MergeRulesFrom(rules, i + 3,
             Append(merged, rules[i] \o <<" ">> \o rules[i + 1] \o <<" ">> \o rules[i + 2]))
    ELSE IF /\ i + 1 <= Len(rules)
            /\ ~EndsWith(rules[i], ")")
            /\ IsParenthetical(rules[i + 1])
    THEN MergeRulesFrom(rules, i + 2, Append(merged, rules[i] \o <<" ">> \o rules[i + 1]))
    ELSE MergeRulesFrom(rules, i + 1, Append(merged, rules[i]))

merge_fragmented_rules(rules) == MergeRulesFrom(rules, 1, <<>>)

\* clean_unit_name(name)
QUOTED_NICKNAME_RE ==
    <<One({"\""}), Grp("1", "one", << <<One(Uppers), Plus(Uppers \cup {"-"})>> >>),
      One({"?"}), One({"\""})>>
CleanedOr(name, cleaned) ==
    IF cleaned = name THEN StrReplace(name, "?\"", "\"") ELSE cleaned
clean_unit_name(name) ==
    CleanedOr(name, ReSub(QUOTED_NICKNAME_RE, {"1"}, name, <<"\"", "\\1", "\"">>))

\* slugify(s) on ASCII text
slugify(s) ==
    StripChars(ReSub(<<NotPlus(Lowers \cup Digits)>>, {}, Lower(s), <<"-">>), {"-"})

(***************************************************************************)
(* The card grammar's regular expressions (lines 852-898 and the inline    *)
(* ones of parse_card_text)                                                *)
(***************************************************************************)
Named(name, pat) == Grp(name, "one", <<pat>>)
Maybe(pat) == Grp("", "opt", <<pat>>)
AnyChar == NotOne({})
AnyStar == NotStar({})
AnyPlus == NotPlus({})
NonSpaceStar == NotStar(Spaces)
NonSpacePlus == NotPlus(Spaces)
Sp == Star(Spaces)
\* (?:\s*,\s*)? and \s*,?\s*
OptComma == Maybe(<<Sp, One({","}), Sp>>)
CommaSp == <<Sp, Opt({","}), Sp>>

\* HEADER_RE (line 852)
HEADER_RE ==
    <<Named("name", <<LazyNotPlus({})>>), Sp, One({"-"}), Sp,
      Named("pts", <<Plus(Digits), Maybe(<<One({"/"}), Plus(Digits)>>)>>), Sp>>
    \o LitCI("pts") \o <<EndOfLine>>
HeaderNames == {"name", "pts"}

\* STAT_RE (lines 854-870)
STAT_RE ==
    <<Grp("unitType", "one", <<LitCI("Inf"), LitCI("Vec"), LitCI("Air")>>),
      Maybe(<<Sp, One({"("}),
              Grp("classFlag", "one",
                  << <<Plus(CI({"S", "W", "C", "M", "L", "H"}))>>,
                     LitCI("CAP"), LitCI("CAS") >>),
              One({")"})>>),
      OptComma,
      Maybe(<<One(CI({"H"})), Digits1("height")>>),
      OptComma,
      Maybe(<<One(CI({"S"}) \cup {"$"}), Digits1("spot"), One({"\""})>>),
      OptComma,
      One(CI({"M"})),
      Grp("move", "one", << <<Plus(Digits)>>, <<One(CI({"O"}))>> >>),
      One({"\""}),
      OptComma,
      One(CI({"Q"})),
      Grp("quality", "one", << <<Plus(Digits)>>, <<One({"*"})>> >>),
      Maybe(<<Sp, One({","}), Sp, One(CI({"T"})),
              Named("tfront", <<NotPlus({"/", ","})>>),
              Maybe(<<One({"/"}), Named("tside", <<NotPlus({"/", ","})>>),
                      One({"/"}), Named("trear", <<NotPlus({",", " "})>>)>>)>>),
      Maybe(<<Sp, One({","}), Sp, One(CI({"E"})), Digits1("evasion")>>),
      Maybe(<<Sp, One({","}), Sp, One(CI({"C"})), Digits1("command")>>),
      Maybe(<<Sp, Opt({","}), Sp, Named("tail", <<AnyStar>>)>>),
      EndOfLine>>
StatNames == {"unitType", "classFlag", "height", "spot", "move", "quality",
              "tfront", "tside", "trear", "evasion", "command", "tail"}

\* WEAPON_NAME_RE (lines 876-880)
CodeChars == Digits \cup Uppers
WEAPON_NAME_RE ==
    <<Grp("", "one",
          << <<LookAhead(<<NonSpaceStar, One(Digits)>>),
               Named("code", <<One(CodeChars), Star(CodeChars \cup {"-"})>>),
               Plus(Spaces), Named("name", <<AnyPlus>>), EndOfLine>>,
             <<One(Uppers), Plus(Uppers \cup Lowers), Plus(Spaces), AnyStar,
               Plus(Digits), Opt({"."}), Star(Digits), Sp>>
                \o Lit("mm") \o <<AnyStar, EndOfLine>>,
             <<One({">"}), Sp, AnyPlus, EndOfLine>> >>)>>
WeaponNames == {"code", "name"}

\* PROFILE_RE (lines 881-890)
PROFILE_RE ==
    <<Grp("target", "opt",
          <<LitCI("All"), LitCI("Inf"), LitCI("Vec"), LitCI("Air"), LitCI("Gnd"),
            LitCI("Inf/Vec"), LitCI("Inf/Vec")>>)>>
    \o CommaSp
    \o <<One(CI({"R"})),
         Grp("range", "one",
             << <<Plus(Digits)>>, LitCI("O"), LitCI("e"), LitCI("eo"), LitCI("o"),
                LitCI("4o") >>),
         One({"\""})>>
    \o CommaSp
    \o <<One(CI({"A"})), Named("acc", <<NotPlus({","})>>)>>
    \o CommaSp
    \o <<Maybe(<<One(CI({"S"})), Named("str", <<NotPlus({","})>>)>> \o CommaSp),
         One(CI({"D"})), Digits1("dmg"),
         Maybe(CommaSp \o LitCI("Ammo") \o <<Sp, Digits1("ammo")>>),
         Maybe(CommaSp \o <<Named("trailing", <<AnyStar>>)>>),
         EndOfLine>>
ProfileNames == {"target", "range", "acc", "str", "dmg", "ammo", "trailing"}

\* PROFILE_DETECT_RE (lines 893-896)
PROFILE_DETECT_RE ==
    <<Grp("", "opt",
          <<LitCI("All"), LitCI("Inf"), LitCI("Vec"), LitCI("Air"), LitCI("Gnd"),
            LitCI("Inf/Vec")>>)>>
    \o CommaSp
    \o <<One(CI({"R"})), Plus(Digits), One({"\""})>>
    \o CommaSp
    \o <<One(CI({"A"})), NotPlus({","})>>
    \o CommaSp
    \o <<Maybe(<<One(CI({"S"})), NotPlus({","})>> \o CommaSp),
         One(CI({"D"})), Plus(Digits)>>

\* FOOTER_NOISE_RE (line 898)
FOOTER_NOISE_RE ==
    <<Grp("", "one",
          << <<WordBoundary>> \o LitCI("FIRELOCK") \o <<WordBoundary>>,
             <<WordBoundary>> \o LitCI("M.D.C.") \o <<WordBoundary>>,
             LitCI("FEDERAL STATES-ARMY"),
             LitCI("DREKFORT") >>)>>

\* r'^(Inf|Vec|Air)$' (lines 962, 1114, 1224)
UNIT_TYPE_ONLY_RE ==
    <<Grp("1", "one", <<Lit("Inf"), Lit("Vec"), Lit("Air")>>), EndOfLine>>

\* r'^\([SWCML]+|CAP|CAS\)' (line 964): three alternatives
CLASS_FLAG_START_RE ==
    <<Grp("", "one",
          << <<One({"("}), Plus({"S", "W", "C", "M", "L"})>>,
             Lit("CAP"),
             Lit("CAS)") >>)>>

\* r'^[A-Z][a-z]+(?:\s+[A-Z][a-z]+)*(?:,.*)?$' (line 991)
RULE_LIKE_RE ==
    <<One(Uppers), Plus(Lowers),
      Grp("", "star", << <<Plus(Spaces), One(Uppers), Plus(Lowers)>> >>),
      Maybe(<<One({","}), AnyStar>>),
      EndOfLine>>

\* r',\s*At\+' and r'(,\s*)At(\+)' (lines 1030-1031)
AT_PLUS_RE == <<One({","}), Sp>> \o Lit("At+")
AT_PLUS_GROUPS_RE ==
    <<Named("1", <<One({","}), Sp>>)>> \o Lit("At") \o <<Named("2", <<One({"+"})>>)>>

\* r"(\d+)\s*pts" (line 1065)
PTS_RE == <<Digits1("1"), Sp>> \o LitCI("pts")

\* r"^\s*-\s*(\d+(?:/\d+)?)\s*pts\s*$" (line 1075)
DASH_PTS_RE ==
    <<Sp, One({"-"}), Sp,
      Named("1", <<Plus(Digits), Maybe(<<One({"/"}), Plus(Digits)>>)>>), Sp>>
    \o LitCI("pts") \o <<Sp, EndOfLine>>

\* r"^(.+?)\s*-\s*(\d+(?:/\d+)?)\s*$" (line 1088)
NAME_DASH_NUMBER_RE ==
    <<Named("1", <<LazyNotPlus({})>>), Sp, One({"-"}), Sp,
      Named("2", <<Plus(Digits), Maybe(<<One({"/"}), Plus(Digits)>>)>>), Sp,
      EndOfLine>>

\* r'^_+$' (lines 1232, 1349, 1355, 1457)
SEPARATOR_RE == <<Plus({"_"}), EndOfLine>>

\* weapon_code_pattern (line 1264)
weapon_code_pattern ==
    <<LookAhead(<<NonSpaceStar, One(Digits)>>),
      One(CodeChars), Star(CodeChars \cup {"-"}), Plus(Spaces), NonSpacePlus>>

\* r'^[A-Z][a-z]+(?:\s*\([^)]+\))?$' (line 1312)
RULE_WORD_RE ==
    <<One(Uppers), Plus(Lowers),
      Maybe(<<Sp, One({"("}), NotPlus({")"}), One({")"})>>), EndOfLine>>

\* r'(\d+mm)' (lines 1463, 1637, 1754, 1767)
CALIBER_RE == <<Named("1", <<Plus(Digits)>> \o Lit("mm"))>>

\* r'\s*Ammo\s+\d+\s*' (line 1503)
AMMO_IN_NAME_RE == <<Sp>> \o LitCI("Ammo") \o <<Plus(Spaces), Plus(Digits), Sp>>

\* r'\b' + rule + r'\b' and r'\s*\b' + rule + r'\b\s*' (lines 1514-1525)
EmbeddedRules == <<"Turret", "No CC", "Multi-Gun">>
RuleWordRe(rule) == <<WordBoundary>> \o Lit(rule) \o <<WordBoundary>>
RuleWordSpacedRe(rule) == <<Sp, WordBoundary>> \o Lit(rule) \o <<WordBoundary, Sp>>

\* r'^Ammo\s+(\d+)$' (line 1565)
AMMO_LINE_RE == LitCI("Ammo") \o <<Plus(Spaces), Digits1("1"), EndOfLine>>

\* r'^\([0-9]+"?\)$' (lines 1723, 1812)
RADIUS_RE == <<One({"("}), Plus(Digits), Opt({"\""}), One({")"}), EndOfLine>>

(***************************************************************************)
(* parse_card_text: the passes over the lines before the header search     *)
(***************************************************************************)
\* the least element of a non-empty set of indices
FirstIn(S) == CHOOSE i \in S : \A j \in S : i <= j
Min(a, b) == IF a < b THEN a ELSE b

\* lines 909-912: a line box is kept if it is not blank and not footer noise
KeepBox(lb) == Strip(lb.text) # <<>> /\ ~ReSearch(FOOTER_NOISE_RE, {}, lb.text).ok
FilterBoxes(boxes) == SelectSeq(boxes, KeepBox)
TextsOf(boxes) == [k \in 1..Len(boxes) |-> norm(boxes[k].text)]

\* line 954
HasFormatting(boxes) == \E k \in 1..Len(boxes) : boxes[k].is_italic

\* lines 957-972: a line that is only a unit type is joined with a next line
\* that starts with a class flag
IsSplitUnitType(ls, i) ==
    /\ i + 1 <= Len(ls)
    /\ ReMatch(UNIT_TYPE_ONLY_RE, {"1"}, Strip(ls[i])).ok
    /\ ReMatch(CLASS_FLAG_START_RE, {}, Strip(ls[i + 1])).ok
RECURSIVE MergeUnitTypeFrom(_, _, _)
MergeUnitTypeFrom(ls, i, merged_lines) ==
    IF i > Len(ls) THEN merged_lines
    ELSE IF IsSplitUnitType(ls, i)
    THEN MergeUnitTypeFrom(ls, i + 2, Append(merged_lines, ls[i] \o Strip(ls[i + 1])))
    ELSE MergeUnitTypeFrom(ls, i + 1, Append(merged_lines, ls[i]))

\* lines 986-991: may line i start a weapon name split over several lines
ShortLineLimit == 30
MergeSkip == 3
MergeLookAhead == 4
LooksLikeProfile(ln) == ReSearch(PROFILE_DETECT_RE, {}, ln).ok
LooksLikeStat(ln) == ReMatch(STAT_RE, StatNames, ln).ok
IsMergeStart(ls, i) ==
    /\ i - 1 >= MergeSkip
    /\ i + 1 <= Len(ls)
    /\ Len(ls[i]) < ShortLineLimit
    /\ ~HasChar(ls[i], ",")
    /\ ~LooksLikeProfile(ls[i])
    /\ ~LooksLikeStat(ls[i])
    /\ ~ReMatch(RULE_LIKE_RE, {}, ls[i]).ok

\* lines 996-1008: the index after the last fragment collected from j on
RECURSIVE FragmentsEnd(_, _, _)
FragmentsEnd(ls, i, j) ==
    IF j <= Len(ls) /\ j < i + MergeLookAhead
    THEN IF \/ LooksLikeProfile(ls[j])
            \/ LooksLikeStat(ls[j])
            \/ Len(ls[j]) > ShortLineLimit
         THEN j
         ELSE IF Len(ls[j]) < ShortLineLimit /\ ~HasChar(ls[j], ",")
              THEN FragmentsEnd(ls, i, j + 1)
              ELSE j
    ELSE j

IsWeaponName(ln) == ReMatch(WEAPON_NAME_RE, WeaponNames, ln).ok

\* lines 980-1022: the fragments i..j-1 are merged if there are several
\* and their join looks like a weapon name
RECURSIVE MergeNamesFrom(_, _, _)
MergeFragments(ls, i, j, merged_lines) ==
    IF j > i + 1 /\ IsWeaponName(Join(Slice(ls, i, j - 1), <<" ">>))
    THEN MergeNamesFrom(ls, j, Append(merged_lines, Join(Slice(ls, i, j - 1), <<" ">>)))
    ELSE MergeNamesFrom(ls, i + 1, Append(merged_lines, ls[i]))
MergeNamesFrom(ls, i, merged_lines) ==
    IF i > Len(ls) THEN merged_lines
    ELSE IF IsMergeStart(ls, i)
    THEN MergeFragments(ls, i, FragmentsEnd(ls, i, i + 1), merged_lines)
    ELSE MergeNamesFrom(ls, i + 1, Append(merged_lines, ls[i]))

\* lines 1026-1033: "At+" read for "A+" in a profile
FixAtPlus(ln) ==
    IF ReSearch(AT_PLUS_RE, {}, ln).ok
    THEN ReSub(AT_PLUS_GROUPS_RE, {"1", "2"}, ln, <<"\\1", "A", "\\2">>)
    ELSE ln

(***************************************************************************)
(* parse_card_text: the header (lines 1043-1097)                           *)
(***************************************************************************)
HeaderWindow == 5
SplitHeaderWindow == 3
DashHeaderWindow == 4

\* points: split costs stay strings, single values become ints (line 1056)
PointsOf(pts_str) ==
    IF HasChar(pts_str, "/") THEN StrV(pts_str) ELSE IntV(ParseInt(pts_str))

HeaderFound(name, pts, idx) ==
    [unit_name |-> StrV(clean_unit_name(norm(name))), points |-> pts, header_idx |-> idx]
HeaderMissing == [unit_name |-> None, points |-> None, header_idx |-> 1]

\* lines 1050-1058: "name - N pts" on one of the first lines
StandardHeaderAt(ls) ==
    {i \in 1..Min(HeaderWindow, Len(ls)) : ReMatch(HEADER_RE, HeaderNames, ls[i]).ok}
StandardHeader(ls, i, hm) ==
    HeaderFound(hm.caps["name"], PointsOf(hm.caps["pts"]), i)

\* lines 1062-1070: name, "-", "N pts" on three lines
SplitHeaderAt(ls) ==
    {i \in 1..Min(SplitHeaderWindow, Len(ls) - 2) :
        /\ Strip(ls[i + 1]) = <<"-">>
        /\ Contains(Lower(ls[i + 2]), "pts")
        /\ ReSearch(PTS_RE, {"1"}, ls[i + 2]).ok}
SplitHeader(ls, i, pts_match) ==
    HeaderFound(ls[i], IntV(ParseInt(pts_match.caps["1"])), i + 2)

\* lines 1074-1082: name, "- N pts" on two lines
DashHeaderAt(ls) ==
    {i \in 1..Min(DashHeaderWindow, Len(ls) - 1) :
        ReMatch(DASH_PTS_RE, {"1"}, ls[i]).ok /\ i > 1}
DashHeader(ls, i, dash_pts_match) ==
    HeaderFound(ls[i - 1], PointsOf(dash_pts_match.caps["1"]), i)

\* lines 1086-1094: "name - N", "pts" on two lines
NumberHeaderAt(ls) ==
    {i \in 1..Min(DashHeaderWindow, Len(ls) - 1) :
        /\ Lower(Strip(ls[i + 1])) = Chars("pts")
        /\ ReMatch(NAME_DASH_NUMBER_RE, {"1", "2"}, ls[i]).ok}
NumberHeader(ls, i, name_pts_match) ==
    HeaderFound(name_pts_match.caps["1"], PointsOf(name_pts_match.caps["2"]), i + 1)

\* the forms are tried in this order; the first index of the first form
\* that is found gives the header
FindHeaderIn(ls, std, split, dash, number) ==
    IF std # {}
    THEN StandardHeader(ls, FirstIn(std), ReMatch(HEADER_RE, HeaderNames, ls[FirstIn(std)]))
    ELSE IF split # {}
    THEN SplitHeader(ls, FirstIn(split), ReSearch(PTS_RE, {"1"}, ls[FirstIn(split) + 2]))
    ELSE IF dash # {}
    THEN DashHeader(ls, FirstIn(dash), ReMatch(DASH_PTS_RE, {"1"}, ls[FirstIn(dash)]))
    ELSE IF number # {}
    THEN NumberHeader(ls, FirstIn(number),
                      ReMatch(NAME_DASH_NUMBER_RE, {"1", "2"}, ls[FirstIn(number)]))
    ELSE HeaderMissing
FindHeader(ls) ==
    FindHeaderIn(ls, StandardHeaderAt(ls), SplitHeaderAt(ls), DashHeaderAt(ls),
                 NumberHeaderAt(ls))

(***************************************************************************)
(* parse_card_text: the stat line (lines 1102-1183)                        *)
(***************************************************************************)
StatWindow == 10

\* gd.get(name): is the group present and not empty
HasGroup(caps, name) == caps[name] # NoneVal /\ caps[name] # <<>>

\* lines 1109-1116: the match of line i, or of line i joined with the next
\* one when formatting is known and line i is a bare unit type
StatMatchAt(ls, i, formatted) ==
    IF ~LooksLikeStat(ls[i]) /\ formatted /\ i + 1 <= Len(ls)
       /\ ReMatch(UNIT_TYPE_ONLY_RE, {"1"}, Strip(ls[i])).ok
    THEN ReMatch(STAT_RE, StatNames, ls[i] \o ls[i + 1])
    ELSE ReMatch(STAT_RE, StatNames, ls[i])

StatAt(ls, hdr, formatted) ==
    {i \in (hdr + 1)..Min(hdr + StatWindow - 1, Len(ls)) :
        StatMatchAt(ls, i, formatted).ok}

\* int(s): a ValueError unless s is a string of digits
IntOrError(s) == IF IsDigitStr(s) THEN IntV(ParseInt(s)) ELSE [t |-> "ValueError"]

\* lines 1137-1142: movement, the letter O standing for zero
Movement(move_val) ==
    IF move_val = <<"O">> \/ move_val = <<"0">> THEN IntV(0)
    ELSE IntOrError(move_val)

\* lines 1145-1149
Quality(qual_val) ==
    IF qual_val = <<"*">> THEN StrV(qual_val) ELSE IntOrError(qual_val)

OptInt(gd, name) ==
    IF HasGroup(gd, name) THEN IntV(ParseInt(gd[name])) ELSE None

\* lines 1167-1178
Toughness(gd) ==
    IF HasGroup(gd, "tfront")
    THEN IF HasGroup(gd, "tside") /\ HasGroup(gd, "trear")
         THEN [t |-> "dict",
               front |-> parse_toughness_value(gd["tfront"]),
               side |-> parse_toughness_value(gd["tside"]),
               rear |-> parse_toughness_value(gd["trear"])]
         ELSE parse_toughness_value(gd["tfront"])
    ELSE None

\* lines 1151-1178
Stats(gd) ==
    [movement |-> Movement(gd["move"]),
     quality |-> Quality(gd["quality"]),
     height |-> OptInt(gd, "height"),
     spottingDistance |-> OptInt(gd, "spot"),
     command |-> OptInt(gd, "command"),
     evasion |-> OptInt(gd, "evasion"),
     toughness |-> Toughness(gd)]

\* lines 1126-1135
UnitType(gd) ==
    IF HasGroup(gd, "classFlag")
    THEN gd["unitType"] \o <<"(">> \o gd["classFlag"] \o <<")">>
    ELSE gd["unitType"]

\* lines 1124-1180 for the line i that matched with groups gd
StatFound(ls, hdr, i, gd) ==
    [found |-> TRUE,
     stat_i |-> i,
     unit_type |-> StrV(UnitType(gd)),
     descriptive_category |-> IF i > hdr + 1 THEN StrV(ls[i - 1]) ELSE None,
     stats |-> Stats(gd)]
StatMissing ==
    [found |-> FALSE, stat_i |-> 0, unit_type |-> None,
     descriptive_category |-> None, stats |-> None]

FindStatIn(ls, hdr, formatted, at) ==
    IF at = {} THEN StatMissing
    ELSE StatFound(ls, hdr, FirstIn(at), StatMatchAt(ls, FirstIn(at), formatted).caps)
FindStat(ls, hdr, formatted) == FindStatIn(ls, hdr, formatted, StatAt(ls, hdr, formatted))

\* lines 1220-1226: where the special rules start
FirstRuleLine(ls, stat_line, formatted) ==
    IF formatted /\ ReMatch(UNIT_TYPE_ONLY_RE, {"1"}, Strip(ls[stat_line])).ok
    THEN stat_line + 2
    ELSE stat_line + 1

(***************************************************************************)
(* parse_card_text: special rules and description (lines 1198-1383)        *)
(***************************************************************************)
\* is_weapon_line(ln, idx): idx = 0 stands for a call without idx
is_weapon_line(ln, idx, boxes) ==
    IF idx >= 1 /\ idx <= Len(boxes)
    THEN IsWeaponName(ln) /\ ~boxes[idx].is_italic
    ELSE IsWeaponName(ln)

\* is_special_rule_line(idx)
is_special_rule_line(idx, boxes) ==
    IF idx < 1 \/ idx > Len(boxes) THEN FALSE ELSE boxes[idx].is_italic

IsSeparator(ln) == ReMatch(SEPARATOR_RE, {}, Strip(ln)).ok

\* ln.strip("_").strip()
Bare(ln) == Strip(StripChars(ln, {"_"}))

\* lines 1244-1249: an italic line gives one rule, or several if it has commas
RulesOfLine(ln) == IF HasChar(ln, ",") THEN split_rules_smart(ln) ELSE <<ln>>

\* lines 1268-1289: an italic line with a weapon code after its start is
\* split into the rule before the code and the weapon from the code on
CodeSplitAt(ln, code_match) ==
    IF /\ code_match.ok
       /\ code_match.at > 1
       /\ Strip(Slice(ln, 1, code_match.at - 1)) # <<>>
       /\ Strip(Slice(ln, code_match.at, Len(ln))) # <<>>
    THEN code_match.at
    ELSE 0
SplitPoint(ln, box) ==
    IF box.is_italic THEN CodeSplitAt(ln, ReSearch(weapon_code_pattern, {}, ln)) ELSE 0

RECURSIVE FixedLinesFrom(_, _, _, _)
FixedLinesAt(ls, boxes, i, fixed, at) ==
    IF at = 0
    THEN FixedLinesFrom(ls, boxes, i + 1,
            [lines |-> Append(fixed.lines, ls[i]),
             boxes |-> Append(fixed.boxes, boxes[i])])
    ELSE FixedLinesFrom(ls, boxes, i + 1,
            [lines |-> fixed.lines \o <<Strip(Slice(ls[i], 1, at - 1)),
                                        Strip(Slice(ls[i], at, Len(ls[i])))>>,
             boxes |-> fixed.boxes \o
                 <<LineBox(Strip(Slice(ls[i], 1, at - 1)), FALSE, TRUE),
                   LineBox(Strip(Slice(ls[i], at, Len(ls[i]))), FALSE, FALSE)>>])
\* zip(lines, line_boxes) stops at the shorter of the two
FixedLinesFrom(ls, boxes, i, fixed) ==
    IF i > Len(ls) \/ i > Len(boxes) THEN fixed
    ELSE FixedLinesAt(ls, boxes, i, fixed, SplitPoint(ls[i], boxes[i]))
FixedLines(ls, boxes) == FixedLinesFrom(ls, boxes, 1, [lines |-> <<>>, boxes |-> <<>>])

\* lines 1302-1319: where the description starts among the temp_rules texts
SentenceLength == 20
SentenceWords == {Chars("All"), Chars("The"), Chars("Each"), Chars("When"),
                  Chars("If"), Chars("Any"), Chars("This")}
\* a description that starts at a sentence word only
StartsDescriptionOnWord(texts, i) ==
    /\ i + 3 <= Len(texts)
    /\ Len(Join(Slice(texts, i, Len(texts)), <<" ">>)) > SentenceLength
    /\ \/ EndsWith(Join(Slice(texts, i, Len(texts)), <<" ">>), ".")
       \/ EndsWith(Join(Slice(texts, i, Len(texts)), <<" ">>), ")")
    /\ texts[i] \in SentenceWords
StartsDescription(texts, i) ==
    /\ i + 3 <= Len(texts)
    /\ Len(Join(Slice(texts, i, Len(texts)), <<" ">>)) > SentenceLength
    /\ \/ EndsWith(Join(Slice(texts, i, Len(texts)), <<" ">>), ".")
       \/ EndsWith(Join(Slice(texts, i, Len(texts)), <<" ">>), ")")
    /\ \/ ~ReMatch(RULE_WORD_RE, {}, texts[i]).ok
       \/ texts[i] \in SentenceWords
DescStart(texts) ==
    IF \E i \in 1..Len(texts) : StartsDescription(texts, i)
    THEN FirstIn({i \in 1..Len(texts) : StartsDescription(texts, i)})
    ELSE 0

\* lines 1321-1335: the temp_rules before the description are special rules,
\* the others are the description
TempSpecialRules(texts, desc_start) ==
    IF desc_start = 0 THEN texts ELSE Slice(texts, 1, desc_start - 1)
TempDescription(texts, desc_start, description) ==
    IF desc_start = 0 THEN description
    ELSE StrV(Join(Slice(texts, desc_start, Len(texts)), <<" ">>))

\* lines 1348-1369: the look-ahead for a description block from peek_cursor
RECURSIVE SkipSeparators(_, _)
SkipSeparators(ls, peek_cursor) ==
    IF peek_cursor <= Len(ls)
       /\ (IsSeparator(ls[peek_cursor]) \/ Strip(ls[peek_cursor]) = <<>>)
    THEN SkipSeparators(ls, peek_cursor + 1)
    ELSE peek_cursor
AfterSeparator(ls, boxes, peek_cursor, potential_desc_lines) ==
    [peek_cursor |-> peek_cursor,
     potential_desc_lines |-> potential_desc_lines,
     found_second_separator |-> TRUE,
     found_weapon_after |->
        peek_cursor <= Len(ls) /\ is_weapon_line(ls[peek_cursor], 0, boxes)]
NoBlock(peek_cursor, potential_desc_lines) ==
    [peek_cursor |-> peek_cursor,
     potential_desc_lines |-> potential_desc_lines,
     found_second_separator |-> FALSE,
     found_weapon_after |-> FALSE]
RECURSIVE PeekFrom(_, _, _, _)
PeekFrom(ls, boxes, peek_cursor, potential_desc_lines) ==
    IF peek_cursor > Len(ls) THEN NoBlock(peek_cursor, potential_desc_lines)
    ELSE IF IsSeparator(ls[peek_cursor])
    THEN AfterSeparator(ls, boxes, SkipSeparators(ls, peek_cursor + 1),
                        potential_desc_lines)
    ELSE IF is_weapon_line(ls[peek_cursor], 0, boxes)
    THEN NoBlock(peek_cursor, potential_desc_lines)
    ELSE PeekFrom(ls, boxes, peek_cursor + 1,
                  IF Bare(ls[peek_cursor]) # <<>>
                  THEN Append(potential_desc_lines, Bare(ls[peek_cursor]))
                  ELSE potential_desc_lines)

\* line 1382: a peeked line that does not look like a sentence
SentenceWordCount == 5
NotSentence(ln) == ~(Len(SplitWords(ln)) > SentenceWordCount /\ ~HasChar(ln, ","))

(***************************************************************************)
(* parse_card_text: the weapon loop (lines 1386-1833)                      *)
(***************************************************************************)
UnnamedWeapon == Chars("(Unnamed weapon)")

\* a weapon of the record: an absent key is None or the empty list; shared
\* is the index of the shot type whose specialRules is the very list object
\* that is this weapon's specialRules (0: none)
Weapon(name, target, range, accuracy, dice, strength, ammo, rules) ==
    [name |-> name, target |-> target, range |-> range, accuracy |-> accuracy,
     dice |-> dice, strength |-> strength, ammo |-> ammo, specialRules |-> rules,
     shotTypes |-> <<>>, shared |-> 0]

\* lines 1392-1403: "Rule > Ammo" is read as "> Ammo" unless the part
\* before ">" is itself a weapon name
AmmoOf(text) == <<">">> \o Strip(After(text, ">"))
CleanedLine(ln) ==
    IF /\ HasChar(ln, ">")
       /\ ~StartsWith(Strip(ln), ">")
       /\ IsWeaponName(AmmoOf(ln))
       /\ ~IsWeaponName(Strip(Before(ln, ">")))
    THEN AmmoOf(ln)
    ELSE ln

\* re.search(r'(\d+mm)', text).group(1), None when there is no match
CaliberIn(caliber_match) ==
    IF caliber_match.ok THEN StrV(caliber_match.caps["1"]) ELSE None
Caliber(text) == CaliberIn(ReSearch(CALIBER_RE, {"1"}, text))

\* lines 1469-1478: the name of an unnamed mortar from its caliber and the
\* card's descriptive category
PlainWords == {Chars("towed"), Chars("mortar"), Chars("self-propelled")}
MortarTypeOf(words) ==
    IF words = <<>> THEN <<>> ELSE Title(words[Len(words)]) \o <<" ">>
MortarName(caliber, category) ==
    IF category # None /\ category.s # <<>> /\ Contains(Upper(category.s), "MORTAR")
    THEN caliber \o <<" ">>
            \o MortarTypeOf(SelectSeq(SplitWords(Lower(category.s)),
                                      LAMBDA w : w \notin PlainWords))
            \o Chars("Mortar")
    ELSE caliber \o Chars(" Mortar")

\* lines 1450-1484: an unnamed profile is named after the ammunition variant
\* that follows it, if one does
RECURSIVE LookAheadTitle(_, _, _)
LookAheadTitle(ls, next_cursor, category) ==
    IF next_cursor > Len(ls) THEN UnnamedWeapon
    ELSE IF Strip(ls[next_cursor]) = <<>> \/ IsSeparator(ls[next_cursor])
    THEN LookAheadTitle(ls, next_cursor + 1, category)
    ELSE IF StartsWith(Strip(ls[next_cursor]), ">")
    THEN IF Caliber(Strip(ls[next_cursor])) # None
         THEN MortarName(Caliber(Strip(ls[next_cursor])).s, category)
         ELSE UnnamedWeapon
    ELSE IF LooksLikeProfile(Strip(ls[next_cursor])) THEN UnnamedWeapon
    ELSE LookAheadTitle(ls, next_cursor + 1, category)

\* lines 1422-1429: is the last special rule of the last weapon a weapon name
LastRuleIsName(ws) ==
    /\ ws # <<>>
    /\ ws[Len(ws)].specialRules # <<>>
    /\ IsWeaponName(ws[Len(ws)].specialRules[Len(ws[Len(ws)].specialRules)])

\* lines 1431-1440: that rule as the title of the unnamed profile
RuleTitle(last_rule) ==
    IF HasChar(last_rule, ">") /\ ~StartsWith(last_rule, ">")
       /\ IsWeaponName(AmmoOf(last_rule))
    THEN AmmoOf(last_rule)
    ELSE last_rule

\* lines 1442-1445: the rule is popped from the list object, which the
\* weapon may share with one of its shot types
PopRule(w) ==
    [w EXCEPT !.specialRules = Slice(@, 1, Len(@) - 1),
              !.shotTypes = IF w.shared = 0 THEN @
                            ELSE [@ EXCEPT ![w.shared].specialRules =
                                      Slice(@, 1, Len(@) - 1)]]
PopLastRule(ws) == [ws EXCEPT ![Len(ws)] = PopRule(@)]

\* lines 1419-1484
UnnamedTitle(ws, ls, cur, category) ==
    IF LastRuleIsName(ws)
    THEN RuleTitle(ws[Len(ws)].specialRules[Len(ws[Len(ws)].specialRules)])
    ELSE LookAheadTitle(ls, cur + 1, category)

\* lines 1513-1516, 1522-1525: the rules embedded in a weapon name, taken
\* out of it in the order Turret, No CC, Multi-Gun
RECURSIVE ExtractEmbedded(_, _, _)
ExtractEmbedded(text, k, found) ==
    IF k > Len(EmbeddedRules) THEN [text |-> text, rules |-> found]
    ELSE IF ReSearch(RuleWordRe(EmbeddedRules[k]), {}, text).ok
    THEN ExtractEmbedded(ReSub(RuleWordSpacedRe(EmbeddedRules[k]), {}, text, <<" ">>),
                         k + 1, Append(found, Chars(EmbeddedRules[k])))
    ELSE ExtractEmbedded(text, k + 1, found)

\* lines 1503-1528 for the title after the removal of "Ammo N"
TidyTitle(text) == Strip(CollapseSpaces(text))
WithAmmoPart(extracted, ammo_part) ==
    [title |-> TidyTitle(Strip(extracted.text) \o <<" ">> \o ammo_part),
     rules |-> extracted.rules]
WithoutAmmoPart(extracted) ==
    [title |-> TidyTitle(extracted.text), rules |-> extracted.rules]
CleanTitle(title) ==
    IF HasChar(title, ">") /\ ~StartsWith(title, ">")
    THEN WithAmmoPart(ExtractEmbedded(Strip(Before(title, ">")), 1, <<>>), AmmoOf(title))
    ELSE WithoutAmmoPart(ExtractEmbedded(title, 1, <<>>))

\* lines 1491-1528: the title and the embedded rules of the weapon name wm
NameTitle(text, wm) ==
    CleanTitle(ReSub(AMMO_IN_NAME_RE, {}, norm(Slice(text, 1, wm.i - 1)), <<" ">>))

\* lines 1552-1555: the rules that trail the profile on its line
TrailingRules(pg) ==
    IF HasGroup(pg, "trailing") /\ Strip(pg["trailing"]) # <<>>
    THEN split_rules_smart(pg["trailing"])
    ELSE <<>>

\* lines 1584-1588: the parts of a rule line that are not ammunition variants
RuleParts(rule_ln) ==
    SelectSeq(split_rules_smart(rule_ln),
              LAMBDA part : ~(StartsWith(part, ">") /\ IsWeaponName(part)))

\* lines 1598-1604, 1616: the range of the profile, with the letter forms
\* of 0 and 40
RangeText(range_val) ==
    IF Lower(range_val) = Chars("o") THEN Chars("0")
    ELSE IF Lower(range_val) \in {Chars("e"), Chars("eo")} THEN Chars("40")
    ELSE IF Lower(range_val) = Chars("4o") THEN Chars("40")
    ELSE range_val
RangeOf(pg) == ParseInt(RangeText(pg["range"]))

\* line 1615
TargetOf(pg) ==
    IF HasGroup(pg, "target") THEN StrReplace(pg["target"], " ", "") ELSE Chars("All")

\* line 1607
StrengthOf(pg) == IF HasGroup(pg, "str") THEN parse_strength(pg["str"]) ELSE None

\* lines 1626-1631
AmmoValue(pg, ammo_from_line) ==
    IF HasGroup(pg, "ammo") THEN IntV(ParseInt(pg["ammo"])) ELSE ammo_from_line

\* lines 1613-1631, 1661-1664: weapon_obj
WeaponObj(title, pg, ammo_from_line, rules) ==
    Weapon(title, TargetOf(pg), RangeOf(pg), parse_acc(pg["acc"]),
           ParseInt(pg["dmg"]), StrengthOf(pg), AmmoValue(pg, ammo_from_line),
           IF rules = <<>> THEN <<>>
           ELSE dedupe_preserve_order(merge_fragmented_rules(rules)))

\* lines 1634-1638: the first rule that is an ammunition variant with a
\* caliber, 0 when there is none
RECURSIVE NamingRule(_, _)
NamingRule(rules, k) ==
    IF k > Len(rules) THEN 0
    ELSE IF StartsWith(rules[k], ">") /\ Caliber(rules[k]) # None THEN k
    ELSE NamingRule(rules, k + 1)

\* w_rules.remove(rule): the first element equal to rule goes
RECURSIVE FirstEqual(_, _, _)
FirstEqual(rules, rule, k) ==
    IF rules[k] = rule THEN k ELSE FirstEqual(rules, rule, k + 1)
RemoveAt(rules, k) == Slice(rules, 1, k - 1) \o Slice(rules, k + 1, Len(rules))

\* lines 1634-1655: an unnamed weapon takes its name from its rules
Renamed(title, rules, category) ==
    IF title = UnnamedWeapon /\ NamingRule(rules, 1) # 0
    THEN MortarName(Caliber(rules[NamingRule(rules, 1)]).s, category)
    ELSE title
RulesLeft(title, rules) ==
    IF title = UnnamedWeapon /\ NamingRule(rules, 1) # 0
    THEN RemoveAt(rules, FirstEqual(rules, rules[NamingRule(rules, 1)], 1))
    ELSE rules

\* lines 1658-1659: embedded_special_rules is whatever the last named
\* weapon line left in it, if any has been read
WithEmbedded(embedded, rules) ==
    IF embedded.bound THEN embedded.rules \o rules ELSE rules

\* lines 1717-1735, 1806-1824: the rules of a Smoke or Chemical-SP shot
IsSmoke(shot_name) == EndsWith(shot_name, "Smoke") \/ EndsWith(shot_name, "Chemical-SP")
AmmoType(shot_name) == SplitWords(shot_name)[Len(SplitWords(shot_name))]
Radius(rule) ==
    IF ~HasChar(rule, "\"") /\ HasChar(rule, ")") THEN StrReplace(rule, ")", "\")")
    ELSE rule
FixedRule(shot_name, rule) ==
    IF ReMatch(RADIUS_RE, {}, rule).ok
    THEN AmmoType(shot_name) \o <<" ">> \o Radius(rule)
    ELSE rule
ShotRules(shot_name, rules) ==
    IF rules # <<>> /\ IsSmoke(shot_name)
    THEN [k \in 1..Len(rules) |-> FixedRule(shot_name, rules[k])]
    ELSE rules

\* lines 1704-1735, 1787-1824: shot_type
ShotType(shot_name, obj) ==
    [name |-> shot_name, target |-> obj.target, range |-> obj.range,
     accuracy |-> obj.accuracy, strength |-> obj.strength, dice |-> obj.dice,
     specialRules |-> ShotRules(shot_name, obj.specialRules)]

\* lines 1675-1679: the last weapon of that name, 0 when there is none
RECURSIVE LastNamed(_, _, _)
LastNamed(ws, name, i) ==
    IF i = 0 THEN 0
    ELSE IF ws[i].name = name THEN i
    ELSE LastNamed(ws, name, i - 1)

\* lines 1684-1698: the placeholder base weapon; its specialRules is the
\* list of weapon_obj, which its first shot type keeps too unless the shot
\* gets the fixed rules of a Smoke or Chemical-SP shot
Placeholder(base_weapon_name, ammo_variant_name, obj) ==
    [obj EXCEPT !.name = base_weapon_name,
                !.shared = IF obj.specialRules # <<>> /\ ~IsSmoke(ammo_variant_name)
                           THEN 1 ELSE 0]

\* lines 1737-1739, 1827-1830
AddShot(ws, base_weapon_idx, shot_type) ==
    [ws EXCEPT ![base_weapon_idx].shotTypes = Append(@, shot_type)]

\* lines 1668-1742: "Base > Ammo" becomes a shot type of the weapon Base
SplitBase(ws, base_weapon_name, ammo_variant_name, obj) ==
    IF LastNamed(ws, base_weapon_name, Len(ws)) = 0
    THEN AddShot(Append(ws, Placeholder(base_weapon_name, ammo_variant_name, obj)),
                 Len(ws) + 1, ShotType(ammo_variant_name, obj))
    ELSE AddShot(ws, LastNamed(ws, base_weapon_name, Len(ws)),
                 ShotType(ammo_variant_name, obj))

\* a search for the base weapon that does not compare calibers
RECURSIVE BaseOfNearest(_, _, _)
BaseOfNearest(ws, ammo_caliber, i) ==
    IF i = 0 THEN 0
    ELSE IF StartsWith(ws[i].name, ">") THEN BaseOfNearest(ws, ammo_caliber, i - 1)
    ELSE i

\* lines 1751-1774: the base weapon of an ammunition variant, walking
\* backwards; 0 when there is none
RECURSIVE BaseOf(_, _, _)
BaseOf(ws, ammo_caliber, i) ==
    IF i = 0 THEN 0
    ELSE IF StartsWith(ws[i].name, ">") THEN BaseOf(ws, ammo_caliber, i - 1)
    ELSE IF ammo_caliber = None \/ Caliber(ws[i].name) = ammo_caliber THEN i
    ELSE BaseOf(ws, ammo_caliber, i - 1)

\* lines 1666-1833: where weapon_obj goes, and the cursor after it
Placed(ws, cur) == [weapons |-> ws, cursor |-> cur]
Place(ws, cur, obj) ==
    IF HasChar(obj.name, ">") /\ ~StartsWith(obj.name, ">")
    THEN Placed(SplitBase(ws, Strip(Before(obj.name, ">")),
                          Strip(After(obj.name, ">")), obj), cur)
    ELSE IF StartsWith(obj.name, ">") /\ ws # <<>>
    THEN IF BaseOf(ws, Caliber(obj.name), Len(ws)) = 0
         THEN Placed(ws, cur + 1)
         ELSE Placed(AddShot(ws, BaseOf(ws, Caliber(obj.name), Len(ws)),
                             ShotType(Strip(Slice(obj.name, 2, Len(obj.name))), obj)),
                     cur)
    ELSE Placed(Append(ws, obj), cur)

\* lines 1596-1833: the end of one turn of the weapon loop
EmitWeapon(ws, cur, title, pg, rules, ammo_from_line, embedded, category) ==
    IF parse_acc(pg["acc"]) = None THEN Placed(ws, cur)
    ELSE Place(ws, cur,
               WeaponObj(Renamed(title, rules, category), pg, ammo_from_line,
                         WithEmbedded(embedded, RulesLeft(title, rules))))

\* what weapon_title is after the turn (line 1648, 1650)
TitleAfter(title, pg, rules, category) ==
    IF parse_acc(pg["acc"]) = None THEN title ELSE Renamed(title, rules, category)

(***************************************************************************)
(* State                                                                   *)
(***************************************************************************)
VARIABLES
    \* match_ocr_to_pdf_lines
    ocr_lines,          \* argument: the OCR lines (text)
    pdf_line_boxes,     \* argument: the PDF lines (LineBox: text, is_bold, is_italic)
    ocr_idx,            \* position of the loop over ocr_lines
    used_pdf_indices,   \* set of PDF line indices already matched
    result,             \* the LineBox list being built
    assigned,           \* history: per OCR line, the PDF index it took (0: none)
    run,                \* history: which call on these arguments this is
    first_result,       \* history: the first call's result
    first_assigned,     \* history: the first call's assignment
    \* fix_ocr_errors_contextual
    fix_line,           \* argument: the line
    fix_out,            \* the values returned by the calls made so far, each
                        \* call being given what the call before returned
    \* parse_card_text
    card_text,          \* argument: the text of the card, line by line
    card,               \* argument: the line boxes of the card
    line_boxes,         \* the line boxes being parsed
    lines,              \* the lines being parsed
    pc,                 \* the position in the function
    has_formatting,     \* whether some line box is italic
    header,             \* unit_name, points, header_idx
    stat,               \* stats, stat_i, unit_type, descriptive_category
    cursor,             \* the index of the line being read
    special_rules,      \* the special rules of the unit
    temp_rules,         \* the texts of the non-italic lines among them
    description,        \* the description of the unit
    weapons,            \* the weapons found so far
    weapon_title,       \* the name of the weapon being read
    embedded_special_rules, \* the rules found in the last weapon name
    pg,                 \* the groups of the profile being read
    w_rules,            \* the special rules of the weapon being read
    ammo_from_line,     \* the value of an "Ammo N" line of the weapon
    ret,                \* what the call returned or raised, once it has
    \* extract_units_from_qur_ocr
    doc,                \* the document: its pages, each the card regions on it
    ex_pc,              \* the position in the function
    pno,                \* the index of the page being processed
    card_i,             \* the index of the card being processed on that page
    units,              \* the units parsed so far
    out,                \* the list that is returned
    log,                \* what the run has printed about the cards
    \* calls of the helper functions
    fn,                 \* the function that is called
    fn_arg,             \* its argument
    fn_res              \* what it returned, once it has

alignVars == <<ocr_lines, pdf_line_boxes, ocr_idx, used_pdf_indices, result,
               assigned, run, first_result, first_assigned>>

fixVars == <<fix_line, fix_out>>

parseVars == <<card_text, card, line_boxes, lines, pc, has_formatting, header, stat, cursor,
               special_rules, temp_rules, description, weapons, weapon_title,
               embedded_special_rules, pg, w_rules, ammo_from_line, ret>>

extractVars == <<doc, ex_pc, pno, card_i, units, out, log>>
funVars == <<fn, fn_arg, fn_res>>
vars == <<alignVars, fixVars, parseVars, extractVars, funVars>>

\* a component no call is made on
AlignIdle ==
    /\ ocr_lines = <<>> /\ pdf_line_boxes = <<>> /\ ocr_idx = 1
    /\ used_pdf_indices = {} /\ result = <<>> /\ assigned = <<>>
    /\ run = 1 /\ first_result = <<>> /\ first_assigned = <<>>
FixIdle == fix_line = <<>> /\ fix_out = <<>>
Running == [t |-> "running"]
ValueError == [t |-> "ValueError"]
Unbound == [bound |-> FALSE, rules |-> <<>>]
NoGroups == [name \in ProfileNames |-> NoneVal]

ParseIdle ==
    /\ card_text = <<>>
    /\ card = <<>>
    /\ lines = <<>>
    /\ line_boxes = <<>>
    /\ pc = "idle"
    /\ has_formatting = FALSE
    /\ header = HeaderMissing
    /\ stat = StatMissing
    /\ cursor = 0
    /\ special_rules = <<>>
    /\ temp_rules = <<>>
    /\ description = None
    /\ weapons = <<>>
    /\ weapon_title = <<>>
    /\ embedded_special_rules = Unbound
    /\ pg = NoGroups
    /\ w_rules = <<>>
    /\ ammo_from_line = None
    /\ ret = Running

RuntimeError == [t |-> "RuntimeError"]

ExtractIdle ==
    /\ doc = <<>> /\ ex_pc = "idle" /\ pno = 0 /\ card_i = 0
    /\ units = <<>> /\ out = <<>> /\ log = <<>>

FunIdle == fn = "" /\ fn_arg = <<>> /\ fn_res = Running

(***************************************************************************)
(* Bounds and input pools of the aligner                                   *)
(***************************************************************************)
MaxOcrLines == 2
MaxPdfLines == 2
MaxRuns == 2

OcrPool == { <<"a","b">>, <<"A","b",".">>, <<" ">>, <<"a","b","c","d","e">> }

PdfPool == { LineBox(<<"a","b">>, FALSE, TRUE),
             LineBox(<<"a","b","c">>, TRUE, FALSE),
             LineBox(<<"a","b","c","x","y">>, FALSE, TRUE),
             LineBox(<<"a","b">>, FALSE, FALSE) }

SeqsUpTo(S, n) == UNION {[1..k -> S] : k \in 0..n}

(***************************************************************************)
(* match_ocr_to_pdf_lines                                                  *)
(***************************************************************************)

\* mutant of SkipUsed: the used set is not consulted
SkipUsedNever(pdf_idx, used) == FALSE

\* line 738: a PDF line already matched is skipped
SkipUsed(pdf_idx, used) == pdf_idx \in used

\* mutant of Better: a later candidate with an equal ratio replaces the best
BetterOrEqual(ratio, best_ratio) == ~RatioGT(best_ratio, ratio)

\* line 746: a candidate replaces the best so far only on a strictly higher ratio
Better(ratio, best_ratio) == RatioGT(ratio, best_ratio)

\* lines 732-749: the scan over the PDF lines, in index order, that keeps
\* the best ratio and its index (idx 0: best_match is None)
RECURSIVE ScanPdf(_, _, _, _, _)
ScanPdf(norm_ocr, boxes, used, pdf_idx, best) ==
    IF pdf_idx > Len(boxes) THEN best
    ELSE IF SkipUsed(pdf_idx, used)
         THEN ScanPdf(norm_ocr, boxes, used, pdf_idx + 1, best)
         ELSE LET ratio == Ratio(norm_ocr,
                                 normalize_for_matching(boxes[pdf_idx].text))
              IN  IF Better(ratio, best.ratio)
                  THEN ScanPdf(norm_ocr, boxes, used, pdf_idx + 1,
                               [ratio |-> ratio, idx |-> pdf_idx])
                  ELSE ScanPdf(norm_ocr, boxes, used, pdf_idx + 1, best)

\* mutant of GoodMatch: a ratio of exactly 0.6 is accepted
GoodMatchAtLeast(best) == best.idx # 0 /\ ~RatioGT(<<6, 10>>, best.ratio)

\* line 752: best_match and best_ratio > 0.6
GoodMatch(best) == best.idx # 0 /\ RatioGT(best.ratio, <<6, 10>>)

\* line 724: not ocr_line.strip()
IsBlank(line) == Strip(line) = <<>>

AlignInit ==
    /\ ocr_lines \in SeqsUpTo(OcrPool, MaxOcrLines)
    /\ pdf_line_boxes \in SeqsUpTo(PdfPool, MaxPdfLines)
    /\ ocr_idx = 1
    /\ used_pdf_indices = {}
    /\ result = <<>>
    /\ assigned = <<>>
    /\ run = 1
    /\ first_result = <<>>
    /\ first_assigned = <<>>
    /\ FixIdle
    /\ ParseIdle
    /\ ExtractIdle
    /\ FunIdle

\* mutant of AlignStep: the scan does not leave out the PDF lines already
\* matched, and a line that takes one of them undoes the earlier match
AlignStepRevising ==
    /\ ocr_idx <= Len(ocr_lines)
    /\ LET ocr_line == ocr_lines[ocr_idx]
           best == ScanPdf(normalize_for_matching(ocr_line), pdf_line_boxes,
                           {}, 1, [ratio |-> <<0, 1>>, idx |-> 0])
       IN  IF ~IsBlank(ocr_line) /\ GoodMatch(best)
           THEN /\ used_pdf_indices' = used_pdf_indices \cup {best.idx}
                /\ result' = Append(
                       [k \in 1..Len(result) |->
                           IF assigned[k] = best.idx
                           THEN LineBox(result[k].text, FALSE, FALSE) ELSE result[k]],
                       LineBox(ocr_line,
                               pdf_line_boxes[best.idx].is_bold,
                               pdf_line_boxes[best.idx].is_italic))
                /\ assigned' = Append(
                       [k \in 1..Len(assigned) |->
                           IF assigned[k] = best.idx THEN 0 ELSE assigned[k]],
                       best.idx)
           ELSE /\ result' = Append(result, LineBox(ocr_line, FALSE, FALSE))
                /\ assigned' = Append(assigned, 0)
                /\ UNCHANGED used_pdf_indices
    /\ ocr_idx' = ocr_idx + 1
    /\ UNCHANGED <<ocr_lines, pdf_line_boxes, run, first_result, first_assigned>>
    /\ UNCHANGED <<fixVars, parseVars, extractVars, funVars>>

\* one iteration of the loop over ocr_lines (lines 723-761)
AlignStep ==
    /\ ocr_idx <= Len(ocr_lines)
    /\ LET ocr_line == ocr_lines[ocr_idx]
           best == ScanPdf(normalize_for_matching(ocr_line), pdf_line_boxes,
                           used_pdf_indices, 1, [ratio |-> <<0, 1>>, idx |-> 0])
       IN  IF IsBlank(ocr_line)
           THEN /\ result' = Append(result, LineBox(ocr_line, FALSE, FALSE))
                /\ assigned' = Append(assigned, 0)
                /\ UNCHANGED used_pdf_indices
           ELSE IF GoodMatch(best)
                THEN /\ used_pdf_indices' = used_pdf_indices \cup {best.idx}
                     /\ result' = Append(result,
                            LineBox(ocr_line,
                                    pdf_line_boxes[best.idx].is_bold,
                                    pdf_line_boxes[best.idx].is_italic))
                     /\ assigned' = Append(assigned, best.idx)
                ELSE /\ result' = Append(result, LineBox(ocr_line, FALSE, FALSE))
                     /\ assigned' = Append(assigned, 0)
                     /\ UNCHANGED used_pdf_indices
    /\ ocr_idx' = ocr_idx + 1
    /\ UNCHANGED <<ocr_lines, pdf_line_boxes, run, first_result, first_assigned>>
    /\ UNCHANGED <<fixVars, parseVars, extractVars, funVars>>

\* the call has returned (line 763); the same arguments are passed to a
\* further call, which starts from fresh locals (lines 720-721)
AlignAgain ==
    /\ ocr_idx > Len(ocr_lines)
    /\ run < MaxRuns
    /\ run' = run + 1
    /\ first_result' = IF run = 1 THEN result ELSE first_result
    /\ first_assigned' = IF run = 1 THEN assigned ELSE first_assigned
    /\ ocr_idx' = 1
    /\ used_pdf_indices' = {}
    /\ result' = <<>>
    /\ assigned' = <<>>
    /\ UNCHANGED <<ocr_lines, pdf_line_boxes>>
    /\ UNCHANGED <<fixVars, parseVars, extractVars, funVars>>

AlignNext == AlignStep \/ AlignAgain

SpecAlign == AlignInit /\ [][AlignNext]_vars

(***************************************************************************)
(* fix_ocr_errors_contextual as a state machine: the corrector is called   *)
(* on a line (by reconstruct_lines, line 690), and again on its own        *)
(* output.                                                                 *)
(***************************************************************************)
MaxWords == 2
MaxFixCalls == 2

\* words of OCR lines that the corrector's rules are about
WordPool == { "lnf", "Alr", "$3\"", "$3/4", "D1,", "$14", "El", "EO",
              "Reo\"", "Ro\"", "5pls", "Inf", "(S)" }

\* ' '.join(words)
RECURSIVE JoinWords(_)
JoinWords(words) ==
    IF words = <<>> THEN <<>>
    ELSE IF Len(words) = 1 THEN Chars(words[1])
    ELSE Chars(words[1]) \o <<" ">> \o JoinWords(Tail(words))

\* the lines: words joined by single spaces, bare or between two spaces
FixInputs ==
    { pad \o JoinWords(words) \o pad :
        pad \in {<<>>, <<" ">>}, words \in SeqsUpTo(WordPool, MaxWords) }

FixInit ==
    /\ fix_line \in FixInputs
    /\ fix_out = <<>>
    /\ AlignIdle
    /\ ParseIdle
    /\ ExtractIdle
    /\ FunIdle

\* one call: on the line, then on what the call before returned
FixCall ==
    /\ Len(fix_out) < MaxFixCalls
    /\ fix_out' = Append(fix_out,
                         fix_ocr_errors_contextual(
                             IF fix_out = <<>> THEN fix_line
                             ELSE fix_out[Len(fix_out)]))
    /\ UNCHANGED fix_line
    /\ UNCHANGED <<alignVars, parseVars, extractVars, funVars>>

FixNext == FixCall

SpecFix == FixInit /\ [][FixNext]_vars

(***************************************************************************)
(* parse_card_text as a state machine: pc is the position in the function, *)
(* the other variables are its parameters and locals, ret what it returns  *)
(* or raises                                                               *)
(***************************************************************************)
\* lines 903-930: the lines and line boxes that are kept
PlainBoxes(text) ==
    FilterBoxes([k \in 1..Len(text) |-> LineBox(norm(text[k]), FALSE, FALSE)])
KeptBoxes(text, boxes) == IF boxes # <<>> THEN FilterBoxes(boxes) ELSE PlainBoxes(text)

\* lines 954-1033: the passes over the lines before the header search
Corrected(ls) == [k \in 1..Len(ls) |-> FixAtPlus(ls[k])]
Prepared(ls, formatted) ==
    Corrected(MergeNamesFrom(IF formatted THEN ls ELSE MergeUnitTypeFrom(ls, 1, <<>>),
                             1, <<>>))

\* lines 903-1033
ParsePrepare ==
    /\ pc = "prepare"
    /\ line_boxes' = KeptBoxes(card_text, card)
    /\ has_formatting' = HasFormatting(KeptBoxes(card_text, card))
    /\ IF KeptBoxes(card_text, card) = <<>>
       THEN /\ lines' = <<>>
            /\ ret' = None
            /\ pc' = "done"
       ELSE /\ lines' = Prepared(TextsOf(KeptBoxes(card_text, card)),
                                 HasFormatting(KeptBoxes(card_text, card)))
            /\ ret' = ret
            /\ pc' = "header"
    /\ UNCHANGED <<alignVars, fixVars, extractVars, funVars, card_text, card, header, stat, cursor, special_rules, temp_rules,
                   description, weapons, weapon_title, embedded_special_rules,
                   pg, w_rules, ammo_from_line>>

\* lines 1043-1097
ParseHeader ==
    /\ pc = "header"
    /\ header' = FindHeader(lines)
    /\ IF FindHeader(lines).unit_name = None \/ FindHeader(lines).points = None
       THEN ret' = None /\ pc' = "done"
       ELSE ret' = ret /\ pc' = "stat"
    /\ UNCHANGED <<alignVars, fixVars, extractVars, funVars, card_text, card, lines, line_boxes, has_formatting, stat, cursor,
                   special_rules, temp_rules, description, weapons, weapon_title,
                   embedded_special_rules, pg, w_rules, ammo_from_line>>

\* int() of a movement or quality that is not a number raises
Raises(found) ==
    found.found /\ ValueError \in {found.stats.movement, found.stats.quality}

\* lines 1099-1226
StatStep(found) ==
    /\ stat' = found
    /\ IF Raises(found) THEN ret' = ValueError /\ pc' = "done" /\ cursor' = cursor
       ELSE IF ~found.found THEN ret' = None /\ pc' = "done" /\ cursor' = cursor
       ELSE /\ ret' = ret
            /\ pc' = "rules"
            /\ cursor' = FirstRuleLine(lines, found.stat_i, has_formatting)
ParseStat ==
    /\ pc = "stat"
    /\ StatStep(FindStat(lines, header.header_idx, has_formatting))
    /\ UNCHANGED <<alignVars, fixVars, extractVars, funVars, card_text, card, lines, line_boxes, has_formatting, header,
                   special_rules, temp_rules, description, weapons, weapon_title,
                   embedded_special_rules, pg, w_rules, ammo_from_line>>

\* line 1230: the loop over the special rules goes on
RulesGoOn ==
    /\ cursor <= Len(lines)
    /\ ~is_weapon_line(lines[cursor], cursor, line_boxes)

\* lines 1230-1254: one turn of the loop
ParseRule ==
    /\ pc = "rules"
    /\ RulesGoOn
    /\ cursor' = cursor + 1
    /\ IF IsSeparator(lines[cursor])
       THEN pc' = "describe" /\ UNCHANGED <<special_rules, temp_rules>>
       ELSE /\ pc' = pc
            /\ special_rules' =
                 IF Bare(lines[cursor]) # <<>> /\ is_special_rule_line(cursor, line_boxes)
                 THEN special_rules \o RulesOfLine(Bare(lines[cursor]))
                 ELSE special_rules
            /\ temp_rules' =
                 IF Bare(lines[cursor]) # <<>> /\ ~is_special_rule_line(cursor, line_boxes)
                 THEN Append(temp_rules, Bare(lines[cursor]))
                 ELSE temp_rules
    /\ UNCHANGED <<alignVars, fixVars, extractVars, funVars, card_text, card, lines, line_boxes, has_formatting, header, stat,
                   description, weapons, weapon_title, embedded_special_rules,
                   pg, w_rules, ammo_from_line, ret>>

\* lines 1340-1383: what the look-ahead makes of the lines before the weapons
Peek(ls, boxes) ==
    IF cursor <= Len(ls) /\ ~is_weapon_line(ls[cursor], 0, boxes)
    THEN PeekFrom(ls, boxes, cursor, <<>>)
    ELSE NoBlock(cursor, <<>>)
IsBlock(peek) ==
    peek.found_second_separator /\ peek.found_weapon_after
        /\ peek.potential_desc_lines # <<>>
PeekedRules(peek) ==
    IF ~IsBlock(peek) /\ peek.potential_desc_lines # <<>> /\ ~peek.found_weapon_after
    THEN SelectSeq(peek.potential_desc_lines, NotSentence)
    ELSE <<>>
Described(fixed, peek) ==
    /\ lines' = fixed.lines
    /\ line_boxes' = fixed.boxes
    /\ special_rules' = special_rules \o TempSpecialRules(temp_rules, DescStart(temp_rules))
                            \o PeekedRules(peek)
    /\ description' = IF IsBlock(peek) THEN StrV(Join(peek.potential_desc_lines, <<" ">>))
                      ELSE TempDescription(temp_rules, DescStart(temp_rules), description)
    /\ cursor' = IF IsBlock(peek) THEN peek.peek_cursor ELSE cursor

\* lines 1259-1383, after the loop over the special rules
ParseDescribe ==
    /\ pc = "describe" \/ (pc = "rules" /\ ~RulesGoOn)
    /\ Described(FixedLines(lines, line_boxes),
                 Peek(FixedLines(lines, line_boxes).lines,
                      FixedLines(lines, line_boxes).boxes))
    /\ pc' = "weapon"
    /\ UNCHANGED <<alignVars, fixVars, extractVars, funVars, card_text, card, has_formatting, header, stat, temp_rules, weapons,
                   weapon_title, embedded_special_rules, pg, w_rules,
                   ammo_from_line, ret>>

\* a weapon loop that does not look at the formatting
IsItalicLineIgnored(idx) == idx < 0

\* line 1409
IsItalicLine(idx) == idx <= Len(line_boxes) /\ line_boxes[idx].is_italic

\* lines 1548-1559: the profile pm has been read, the cursor goes past it
ProfileRead(pm, cur) ==
    /\ pg' = pm.caps
    /\ cursor' = cur
    /\ w_rules' = TrailingRules(pm.caps)
    /\ ammo_from_line' = None
    /\ pc' = "collect"

\* lines 1413-1487: a profile without a name
UnnamedProfile(pm) ==
    IF pm.ok
    THEN /\ weapon_title' = UnnamedTitle(weapons, lines, cursor, stat.descriptive_category)
         /\ weapons' = IF LastRuleIsName(weapons) THEN PopLastRule(weapons) ELSE weapons
         /\ ProfileRead(pm, cursor + 1)
    ELSE /\ cursor' = cursor + 1
         /\ UNCHANGED <<pc, weapon_title, weapons, pg, w_rules, ammo_from_line>>
ParseProfileLine ==
    /\ pc = "weapon"
    /\ cursor <= Len(lines)
    /\ ~IsWeaponName(CleanedLine(lines[cursor]))
    /\ LooksLikeProfile(lines[cursor])
    /\ UnnamedProfile(ReMatch(PROFILE_RE, ProfileNames, lines[cursor]))
    /\ UNCHANGED <<alignVars, fixVars, extractVars, funVars, card_text, card, lines, line_boxes, has_formatting, header, stat,
                   special_rules, temp_rules, description, embedded_special_rules, ret>>

\* lines 1488-1538: a weapon name, and the profile expected after it
NameRead(named) ==
    /\ weapon_title' = named.title
    /\ embedded_special_rules' = [bound |-> TRUE, rules |-> named.rules]
AfterName(pm) ==
    IF pm.ok THEN ProfileRead(pm, cursor + 2)
    ELSE /\ cursor' = cursor + 2
         /\ UNCHANGED <<pc, pg, w_rules, ammo_from_line>>
ParseNameLine ==
    /\ pc = "weapon"
    /\ cursor <= Len(lines)
    /\ IsWeaponName(CleanedLine(lines[cursor]))
    /\ ~IsItalicLine(cursor)
    /\ NameRead(NameTitle(CleanedLine(lines[cursor]),
                       ReMatch(WEAPON_NAME_RE, WeaponNames, CleanedLine(lines[cursor]))))
    /\ IF cursor + 1 > Len(lines)
       THEN /\ cursor' = cursor + 1
            /\ UNCHANGED <<pc, pg, w_rules, ammo_from_line>>
       ELSE AfterName(ReMatch(PROFILE_RE, ProfileNames, lines[cursor + 1]))
    /\ UNCHANGED <<alignVars, fixVars, extractVars, funVars, card_text, card, lines, line_boxes, has_formatting, header, stat,
                   special_rules, temp_rules, description, weapons, ret>>

\* lines 1539-1546: any other line is skipped
ParseOtherLine ==
    /\ pc = "weapon"
    /\ cursor <= Len(lines)
    /\ IF IsWeaponName(CleanedLine(lines[cursor])) THEN IsItalicLine(cursor)
       ELSE ~LooksLikeProfile(lines[cursor])
    /\ cursor' = cursor + 1
    /\ UNCHANGED <<alignVars, fixVars, extractVars, funVars, card_text, card, lines, line_boxes, pc, has_formatting, header, stat,
                   special_rules, temp_rules, description, weapons, weapon_title,
                   embedded_special_rules, pg, w_rules, ammo_from_line, ret>>

\* lines 1560-1594: the loop over the rules of a weapon stops
IsAmmoLine(rule_ln) == ReMatch(AMMO_LINE_RE, {"1"}, rule_ln).ok
IsVariant(rule_ln) == StartsWith(rule_ln, ">") /\ IsWeaponName(rule_ln)
StopsAt(rule_ln) ==
    ~IsAmmoLine(rule_ln) /\ (LooksLikeProfile(rule_ln) \/ IsVariant(rule_ln))
CollectStops ==
    IF cursor > Len(lines) THEN TRUE
    ELSE IF is_weapon_line(lines[cursor], cursor, line_boxes) THEN TRUE
    ELSE StopsAt(Bare(lines[cursor]))

\* lines 1579-1588
Collected(rule_ln) ==
    IF rule_ln # <<>> /\ (IsItalicLine(cursor) \/ HasChar(rule_ln, ","))
    THEN RuleParts(rule_ln)
    ELSE <<>>

\* a loop that goes to its next turn at an 'Ammo N' line without moving the
\* cursor
ParseCollectStaying ==
    /\ pc = "collect"
    /\ ~CollectStops
    /\ IF IsAmmoLine(Bare(lines[cursor]))
       THEN /\ ammo_from_line' =
                 IntV(ParseInt(ReMatch(AMMO_LINE_RE, {"1"}, Bare(lines[cursor])).caps["1"]))
            /\ w_rules' = w_rules
            /\ cursor' = cursor
       ELSE /\ ammo_from_line' = ammo_from_line
            /\ w_rules' = w_rules \o Collected(Bare(lines[cursor]))
            /\ cursor' = cursor + 1
    /\ UNCHANGED <<alignVars, fixVars, extractVars, funVars, card_text, card, lines, line_boxes, pc, has_formatting, header, stat,
                   special_rules, temp_rules, description, weapons, weapon_title,
                   embedded_special_rules, pg, ret>>

\* lines 1560-1594: one turn of the loop
ParseCollect ==
    /\ pc = "collect"
    /\ ~CollectStops
    /\ cursor' = cursor + 1
    /\ IF IsAmmoLine(Bare(lines[cursor]))
       THEN /\ ammo_from_line' =
                 IntV(ParseInt(ReMatch(AMMO_LINE_RE, {"1"}, Bare(lines[cursor])).caps["1"]))
            /\ w_rules' = w_rules
       ELSE /\ ammo_from_line' = ammo_from_line
            /\ w_rules' = w_rules \o Collected(Bare(lines[cursor]))
    /\ UNCHANGED <<alignVars, fixVars, extractVars, funVars, card_text, card, lines, line_boxes, pc, has_formatting, header, stat,
                   special_rules, temp_rules, description, weapons, weapon_title,
                   embedded_special_rules, pg, ret>>

\* lines 1596-1833: the weapon is added, folded into its base weapon, or
\* dropped
Emitted(placed) ==
    /\ weapons' = placed.weapons
    /\ cursor' = placed.cursor
ParseEmit ==
    /\ pc = "collect"
    /\ CollectStops
    /\ Emitted(EmitWeapon(weapons, cursor, weapon_title, pg, w_rules, ammo_from_line,
                          embedded_special_rules, stat.descriptive_category))
    /\ weapon_title' = TitleAfter(weapon_title, pg, w_rules, stat.descriptive_category)
    /\ pc' = "weapon"
    /\ UNCHANGED <<alignVars, fixVars, extractVars, funVars, card_text, card, lines, line_boxes, has_formatting, header, stat,
                   special_rules, temp_rules, description, embedded_special_rules,
                   pg, w_rules, ammo_from_line, ret>>

\* lines 1835-1864: the unit that is returned; an absent key is None or empty
Unit ==
    [t |-> "unit",
     id |-> slugify(header.unit_name.s),
     name |-> header.unit_name.s,
     unitClass |-> stat.unit_type,
     points |-> header.points,
     stats |-> stat.stats,
     descriptiveCategory |-> IF stat.descriptive_category # None
                                  /\ stat.descriptive_category.s # <<>>
                             THEN stat.descriptive_category ELSE None,
     specialRules |-> IF special_rules = <<>> THEN <<>>
                      ELSE dedupe_preserve_order(merge_fragmented_rules(special_rules)),
     description |-> IF description # None /\ description.s # <<>>
                     THEN description ELSE None,
     weapons |-> weapons,
     options |-> <<>>]
ParseBuild ==
    /\ pc = "weapon"
    /\ cursor > Len(lines)
    /\ ret' = Unit
    /\ pc' = "done"
    /\ UNCHANGED <<alignVars, fixVars, extractVars, funVars, card_text, card, lines, line_boxes, has_formatting, header, stat, cursor,
                   special_rules, temp_rules, description, weapons, weapon_title,
                   embedded_special_rules, pg, w_rules, ammo_from_line>>

(***************************************************************************)
(* Cards                                                                   *)
(***************************************************************************)
MaxBlocks == 2
Roman(str) == LineBox(Chars(str), FALSE, FALSE)
Italic(str) == LineBox(Chars(str), FALSE, TRUE)

PlainPrefix == <<Roman("AB - 5 pts"), Roman("Inf, M4\", Q3")>>
EmptyCard == <<>>
BlankCard == <<Roman(" ")>>
FooterCard == <<Roman("FIRELOCK 198X")>>
NoHeaderCard == <<Roman("AB"), Roman("Inf, M4\", Q3"), Roman("6G1 7mm Rifle"), Roman("R6\", A3+, D1")>>
LateHeaderCard == <<Roman("Crew"), Roman("Crew"), Roman("Crew"), Roman("Crew"), Roman("Crew"), Roman("AB - 5 pts"), Roman("Inf, M4\", Q3")>>
FifthLineHeaderCard == <<Roman("Crew"), Roman("Crew"), Roman("Crew"), Roman("Crew"), Roman("AB - 5 pts"), Roman("Inf, M4\", Q3")>>
NoStatCard == <<Roman("AB - 5 pts"), Roman("Crew"), Roman("6G1 7mm Rifle"), Roman("R6\", A3+, D1")>>
LateStatCard == <<Roman("AB - 5 pts"), Roman("Crew"), Roman("Crew"), Roman("Crew"), Roman("Crew"), Roman("Crew"), Roman("Crew"), Roman("Crew"), Roman("Crew"), Roman("Crew"), Roman("Inf, M4\", Q3")>>
LastStatCard == <<Roman("AB - 5 pts"), Roman("Crew"), Roman("Crew"), Roman("Crew"), Roman("Crew"), Roman("Crew"), Roman("Crew"), Roman("Crew"), Roman("Crew"), Roman("Inf, M4\", Q3"), Roman("6G1 7mm Rifle"), Roman("R6\", A3+, D1")>>
LowerZeroCard == <<Roman("AB - 5 pts"), Roman("Inf, Mo\", Q3"), Roman("6G1 7mm Rifle"), Roman("R6\", A3+, D1")>>
UpperZeroCard == <<Roman("AB - 5 pts"), Roman("Inf, MO\", Q3"), Roman("6G1 7mm Rifle"), Roman("R6\", A3+, D1")>>
SplitHeaderCard == <<Roman("AB"), Roman("-"), Roman("5 pts"), Roman("Inf, M4\", Q3")>>
DashHeaderCard == <<Roman("AB"), Roman("- 0/20 pts"), Roman("Inf, M4\", Q3")>>
NumberHeaderCard == <<Roman("AB - 7"), Roman("pts"), Roman("Inf, M4\", Q3")>>
SeparatorCard == <<Roman("AB - 5 pts"), Roman("Inf, M4\", Q3"), Italic("Fearless"), Roman("___"), Roman("Crew"), Roman("6G1 7mm Rifle"), Roman("R6\", A3+, D1")>>
DescriptionCard == <<Roman("AB - 5 pts"), Roman("Inf, M4\", Q3"), Italic("Fearless"), Roman("___"), Roman("All of them run."), Roman("___"), Roman("6G1 7mm Rifle"), Roman("R6\", A3+, D1")>>
MortarCard == <<Roman("AB - 5 pts"), Roman("TOWED AUTOMATIC MORTAR"), Roman("Inf, M4\", Q3"), Roman("___"), Roman("Inf, R6\", A3+/4+, D2, Ammo 2"), Roman("> 82mm Smoke"), Roman("R6\", A4+, D1, (3)")>>
VehicleCard == <<LineBox(<<"u201c">> \o Chars("Big") \o <<"u201d">> \o Chars(" AB - 0/20 pts"), FALSE, FALSE), Roman("Vec(W), H2, S12\", M8\", Q*, T5/4/3, C2"), Roman("6G1 7mm Rifle Turret Ammo 3"), Roman("Vec, R4o\", At++/++, S3/2, D1"), Roman("Ammo 4"), Italic("Slow, Fast"), Italic("> 7mm AP"), Roman("R6\", A4+, S[D3], D1")>>
PopCard == <<Roman("AB - 5 pts"), Roman("Inf, M4\", Q3"), Roman("6G1 7mm Rifle"), Roman("R6\", A3+, D1"), Italic("Slow, 902V 81mm Launcher"), Roman("R6\", A5+, D1")>>
SharedPopCard == <<Roman("AB - 5 pts"), Roman("Inf, M4\", Q3"), Roman("6G1 7mm Rifle > 7mm HE"), Roman("R9\", A*, S2, D1"), Italic("Slow, 902V 81mm Launcher"), Roman("R6\", A5+, D1")>>
SplitStatCard == <<Roman("AB - 5 pts"), Roman("Inf"), Roman("(S), M4\", Q3"), Italic("Fearless"), Roman("6G1 7mm Rifle"), Roman("R6\", A3+, D1")>>
ItalicSplitCard == <<Roman("AB - 5 pts"), Roman("Inf, M4\", Q3"), Italic("Defensive CC 6L1 85mm RPG"), Roman("R6\", A3+, D1")>>
UnnamedCard == <<Roman("AB - 5 pts"), Roman("Inf, M4\", Q3"), Roman("6G1 7mm Rifle"), Roman("R6\", A3+, D1"), Roman("R9\", A5+, D3")>>
SplitCostSplitHeaderCard == <<Roman("AB"), Roman("-"), Roman("0/20 pts"), Roman("Inf, M4\", Q3")>>
SingleCostDashHeaderCard == <<Roman("AB"), Roman("- 7 pts"), Roman("Inf, M4\", Q3")>>
SplitCostNumberHeaderCard == <<Roman("AB - 0/20"), Roman("pts"), Roman("Inf, M4\", Q3")>>
TwoCaliberCard == <<Roman("AB - 5 pts"), Roman("Inf, M4\", Q3"), Roman("9P1 82mm Mortar"), Roman("R6\", A4+, D2"), Roman("6G1 7mm Rifle"), Roman("R6\", A3+, D1"), Roman("> 82mm Frag"), Roman("R6\", A5+, D2"), Roman("> HE"), Roman("R9\", A4+, D1")>>
ItalicNameCard == <<Roman("AB - 5 pts"), Roman("Inf, M4\", Q3"), Roman("6G1 7mm Rifle"), Roman("R6\", A3+, D1"), Italic("902V 81mm Launcher"), Roman("R6\", A5+, D1"), Italic("> 7mm AP"), Roman("R9\", A4+, D2")>>
ItalicFirstNameCard == <<Roman("AB - 5 pts"), Roman("Inf, M4\", Q3"), Roman("___"), Italic("6G1 7mm Rifle"), Roman("R6\", A3+, D1")>>
SentenceCard == <<Roman("AB - 5 pts"), Roman("Inf, M4\", Q3"), Roman("Fearless"), Roman("All"), Roman("units in the"), Roman("squad run"), Roman("very fast."), Roman("6G1 7mm Rifle"), Roman("R6\", A3+, D1")>>
LowerStartCard == <<Roman("AB - 5 pts"), Roman("Inf, M4\", Q3"), Roman("Fearless"), Roman("units in the"), Roman("squad run"), Roman("very fast"), Roman("all day."), Roman("6G1 7mm Rifle"), Roman("R6\", A3+, D1")>>
ShortRunCard == <<Roman("AB - 5 pts"), Roman("Inf, M4\", Q3"), Roman("Fearless"), Roman("All"), Roman("of them run far away today."), Roman("6G1 7mm Rifle"), Roman("R6\", A3+, D1")>>
TurretCard == <<Roman("AB - 5 pts"), Roman("Inf, M4\", Q3"), Roman("6G1 7mm Rifle Turret"), Roman("R6\", A3+, D1"), Roman("R9\", A5+, D3")>>
MergedNameCard == <<Roman("AB - 5 pts"), Roman("Inf, M4\", Q3"), Italic("Fearless"), Roman("6G1"), Roman("7mm Rifle"), Roman("R6\", A3+, D1"), Italic("Slow")>>
WholeNameCard == <<Roman("AB - 5 pts"), Roman("Inf, M4\", Q3"), Italic("Fearless"), Roman("6G1 7mm Rifle"), Roman("R6\", A3+, D1"), Italic("Slow")>>
SmokeTwiceCard == <<Roman("AB - 5 pts"), Roman("Inf, M4\", Q3"), Roman("6G1 Mortar > 82mm Smoke"), Roman("R6\", A4+, D1, (3), Smoke (3\")")>>
NamedBlock == <<Roman("6G1 7mm Rifle"), Roman("R6\", A3+, D1")>>
VariantBlock == <<Roman("> 7mm AP"), Roman("R6\", A4+/x, D1")>>
OtherVariantBlock == <<Roman("> 82mm Frag"), Roman("Ro\", A++/xx, D2")>>
NoProfileBlock == <<Roman("7H2 Pistol")>>
BadAccuracyBlock == <<Roman("8K3 Gun"), Roman("R6\", Azz, D1")>>
BaseAmmoBlock == <<Roman("6G1 7mm Rifle > 7mm HE"), Roman("RO\", A*, S2, D1")>>
RuleBlock == <<Italic("Turret, Slow")>>

PrefixPool ==
    { PlainPrefix }

OddCards ==
    { EmptyCard,
      BlankCard,
      FooterCard,
      NoHeaderCard,
      LateHeaderCard,
      FifthLineHeaderCard,
      NoStatCard,
      LateStatCard,
      LastStatCard,
      LowerZeroCard,
      UpperZeroCard,
      SplitHeaderCard,
      DashHeaderCard,
      NumberHeaderCard,
      SeparatorCard,
      DescriptionCard,
      MortarCard,
      VehicleCard,
      PopCard,
      SharedPopCard,
      SplitStatCard,
      ItalicSplitCard,
      UnnamedCard,
      SplitCostSplitHeaderCard,
      SingleCostDashHeaderCard,
      SplitCostNumberHeaderCard,
      TwoCaliberCard,
      ItalicNameCard,
      ItalicFirstNameCard,
      SentenceCard,
      LowerStartCard,
      ShortRunCard,
      TurretCard,
      MergedNameCard,
      WholeNameCard,
      SmokeTwiceCard }

BlockPool ==
    { NamedBlock,
      VariantBlock,
      OtherVariantBlock,
      NoProfileBlock,
      BadAccuracyBlock,
      BaseAmmoBlock,
      RuleBlock }

RECURSIVE Flatten(_)
Flatten(blocks) == IF blocks = <<>> THEN <<>> ELSE Head(blocks) \o Flatten(Tail(blocks))

Cards == { prefix \o Flatten(body) :
             prefix \in PrefixPool, body \in SeqsUpTo(BlockPool, MaxBlocks) }
             \cup OddCards

ParseInit ==
    /\ card \in Cards
    /\ card_text = [k \in 1..Len(card) |-> card[k].text]
    /\ line_boxes = card
    /\ lines = <<>>
    /\ pc = "prepare"
    /\ has_formatting = FALSE
    /\ header = HeaderMissing
    /\ stat = StatMissing
    /\ cursor = 0
    /\ special_rules = <<>>
    /\ temp_rules = <<>>
    /\ description = None
    /\ weapons = <<>>
    /\ weapon_title = <<>>
    /\ embedded_special_rules = Unbound
    /\ pg = NoGroups
    /\ w_rules = <<>>
    /\ ammo_from_line = None
    /\ ret = Running
    /\ AlignIdle
    /\ FixIdle
    /\ ExtractIdle
    /\ FunIdle

ParseNext ==
    \/ ParsePrepare
    \/ ParseHeader
    \/ ParseStat
    \/ ParseRule
    \/ ParseDescribe
    \/ ParseProfileLine
    \/ ParseNameLine
    \/ ParseOtherLine
    \/ ParseCollect
    \/ ParseEmit
    \/ ParseBuild

SpecParse == ParseInit /\ [][ParseNext]_vars

\* parse_card_text is one sequential call: while it has neither returned
\* nor raised, it goes on to another position or moves its cursor.  The
\* action says so in terms of pc and cursor alone, for ENABLED to be
\* evaluated on it.
Positions == {"prepare", "header", "stat", "rules", "describe", "weapon", "collect", "done"}
Proceeds ==
    /\ pc \notin {"idle", "done"}
    /\ pc' \in Positions
    /\ cursor' \in 0..(2 * Len(card) + 2)
SpecParseFair == ParseInit /\ [][ParseNext]_vars /\ WF_<<pc, cursor>>(Proceeds)

(***************************************************************************)
(* extract_card_text_ocr and extract_units_from_qur_ocr.  What the PDF     *)
(* library and the OCR engine give for a card region is an input: the line *)
(* boxes made of the region's characters, whether the page renders to an   *)
(* image, the OCR words grouped by line, and the heading above the card.   *)
(***************************************************************************)
Region(chars, images, words, heading) ==
    [chars |-> chars, images |-> images, words |-> words, heading |-> Chars(heading)]

\* lines 789-792: the PDF lines that are not blank and not separators
RECURSIVE PdfLineBoxes(_)
PdfLineBoxes(raw) ==
    IF raw = <<>> THEN <<>>
    ELSE IF Strip(Head(raw).text) # <<>> /\ ~IsSeparator(Head(raw).text)
         THEN <<Head(raw)>> \o PdfLineBoxes(Tail(raw))
         ELSE PdfLineBoxes(Tail(raw))

\* reconstruct_lines (lines 655-694) on words already grouped by line: the
\* words of a line are joined by spaces and the corrector is applied
reconstruct_lines(words) ==
    [k \in 1..Len(words) |-> fix_ocr_errors_contextual(JoinWords(words[k]))]

\* match_ocr_to_pdf_lines (lines 719-763) as a function of its arguments:
\* the loop over the OCR lines from index ocr_i, and what it does with the
\* best candidate of a line that is not blank
RECURSIVE MatchFrom(_, _, _, _, _)
MatchBest(ocr, boxes, ocr_i, used, matched, best) ==
    IF GoodMatch(best)
    THEN MatchFrom(ocr, boxes, ocr_i + 1, used \cup {best.idx},
                   Append(matched, LineBox(ocr[ocr_i], boxes[best.idx].is_bold,
                                           boxes[best.idx].is_italic)))
    ELSE MatchFrom(ocr, boxes, ocr_i + 1, used,
                   Append(matched, LineBox(ocr[ocr_i], FALSE, FALSE)))
MatchFrom(ocr, boxes, ocr_i, used, matched) ==
    IF ocr_i > Len(ocr) THEN matched
    ELSE IF IsBlank(ocr[ocr_i])
         THEN MatchFrom(ocr, boxes, ocr_i + 1, used,
                        Append(matched, LineBox(ocr[ocr_i], FALSE, FALSE)))
         ELSE MatchBest(ocr, boxes, ocr_i, used, matched,
                        ScanPdf(normalize_for_matching(ocr[ocr_i]), boxes, used, 1,
                                [ratio |-> <<0, 1>>, idx |-> 0]))
match_ocr_to_pdf_lines(ocr, boxes) == MatchFrom(ocr, boxes, 1, {}, <<>>)

\* lb.text for lb in line_boxes
BoxTexts(boxes) == [k \in 1..Len(boxes) |-> boxes[k].text]

\* extract_card_text_ocr (lines 766-846): plain_text and line_boxes
CardText(boxes) == [text |-> Join(BoxTexts(boxes), <<"\n">>), line_boxes |-> boxes]
extract_card_text_ocr(region) ==
    IF ~region.images THEN [text |-> <<>>, line_boxes |-> <<>>]
    ELSE CardText(match_ocr_to_pdf_lines(reconstruct_lines(region.words),
                                         PdfLineBoxes(region.chars)))

\* split_category_subcategory (lines 232-250): category and subcategory
split_category_subcategory(heading) ==
    IF heading = <<>> THEN <<None, None>>
    ELSE IF Contains(heading, " - ")
         THEN <<StrV(Title(Strip(Slice(heading, 1,
                        ReSearch(Lit(" - "), {}, heading).at - 1)))),
                StrV(Strip(Slice(heading, ReSearch(Lit(" - "), {}, heading).i,
                                 Len(heading))))>>
         ELSE <<StrV(Title(Strip(heading))), None>>

\* lines 1928-1935: the category inferred from the unit class
InferredCategory(unit_class) ==
    IF Contains(unit_class, "Inf") THEN Chars("Infantry")
    ELSE IF Contains(unit_class, "Vec") THEN Chars("Vehicles")
    ELSE IF Contains(unit_class, "Air") THEN Chars("Aircraft")
    ELSE Chars("Infantry")

\* line 1938
valid_categories ==
    {Chars("TACOMS"), Chars("Infantry"), Chars("Vehicles"), Chars("Aircraft"),
     Chars("Emplacements"), Chars("Support"), Chars("Scenario")}

\* lines 1941-1944: the heading's category agrees with the unit class
CategoryMatches(cat, unit_class) ==
    \/ cat = Chars("Infantry") /\ Contains(unit_class, "Inf")
    \/ cat = Chars("Vehicles") /\ Contains(unit_class, "Vec")
    \/ cat = Chars("Aircraft") /\ Contains(unit_class, "Air")
    \/ cat \in {Chars("TACOMS"), Chars("Emplacements"), Chars("Support"), Chars("Scenario")}

\* lines 1939-1953: category and subcategory of a unit under a heading split
\* into hd = <<cat, subcat>>
Categorised(hd, unit_class) ==
    IF hd[1] # None /\ hd[1].s # <<>> /\ hd[1].s \in valid_categories
    THEN IF CategoryMatches(hd[1].s, unit_class) THEN hd
         ELSE <<StrV(InferredCategory(unit_class)), None>>
    ELSE <<StrV(InferredCategory(unit_class)), hd[2]>>

\* lines 1955-1957: the unit with its category; an absent subcategory is None
WithCategory(unit, hd) ==
    [category |-> hd[1],
     subcategory |-> IF hd[2] # None /\ hd[2].s # <<>> THEN hd[2] ELSE None] @@ unit

\* mutant of DedupeFrom: the set of ids seen is not consulted
DedupeFromUnseen(us, i, seen, kept) ==
    SelectSeq(us, LAMBDA u : u.id # <<>>)

\* lines 1963-1973: the units whose id is not empty and not seen before
RECURSIVE DedupeFrom(_, _, _, _)
DedupeFrom(us, i, seen, kept) ==
    IF i > Len(us) THEN kept
    ELSE IF us[i].id = <<>> \/ us[i].id \in seen
         THEN DedupeFrom(us, i + 1, seen, kept)
         ELSE DedupeFrom(us, i + 1, seen \cup {us[i].id}, Append(kept, us[i]))

(***************************************************************************)
(* extract_units_from_qur_ocr as a state machine: a document is the list   *)
(* of its Quick Unit Reference pages, a page the list of its card regions  *)
(* in located order.  parse_card_text is called on each card that has      *)
(* text; its steps are the actions of the parser.                          *)
(***************************************************************************)
\* a line of the run's log about card i of page p
Logged(p, i, message) == [page |-> p, card |-> i, message |-> message]

\* lines 1879-1882: no Quick Unit Reference page raises
ExtractOpen ==
    /\ ex_pc = "open"
    /\ IF doc = <<>>
       THEN ex_pc' = "RuntimeError" /\ pno' = pno
       ELSE ex_pc' = "page" /\ pno' = 1
    /\ UNCHANGED <<doc, card_i, units, out, log>>
    /\ UNCHANGED <<alignVars, fixVars, parseVars, funVars>>

\* lines 1886-1900: the next page; a page without card boxes is skipped
ExtractPage ==
    /\ ex_pc = "page"
    /\ IF pno > Len(doc)
       THEN /\ ex_pc' = "dedupe"
            /\ UNCHANGED <<pno, card_i, log>>
       ELSE IF doc[pno] = <<>>
            THEN /\ pno' = pno + 1
                 /\ log' = Append(log, Logged(pno, 0, "No card boxes found"))
                 /\ UNCHANGED <<ex_pc, card_i>>
            ELSE /\ ex_pc' = "card"
                 /\ card_i' = 1
                 /\ UNCHANGED <<pno, log>>
    /\ UNCHANGED <<doc, units, out>>
    /\ UNCHANGED <<alignVars, fixVars, parseVars, funVars>>

\* lines 1902-1913: the next card of the page: its text is extracted and,
\* if there is any, parse_card_text is called on it
Extracted(ex) ==
    IF ex.text = <<>>
    THEN /\ card_i' = card_i + 1
         /\ log' = Append(log, Logged(pno, card_i, "No text extracted"))
         /\ UNCHANGED <<ex_pc, pno, parseVars>>
    ELSE /\ ex_pc' = "parse"
         /\ card_text' = SplitOn(ex.text, "\n")
         /\ card' = ex.line_boxes
         /\ line_boxes' = ex.line_boxes
         /\ pc' = "prepare"
         /\ UNCHANGED <<pno, card_i, log, lines, has_formatting, header, stat,
                        cursor, special_rules, temp_rules, description, weapons,
                        weapon_title, embedded_special_rules, pg, w_rules,
                        ammo_from_line, ret>>
ExtractCard ==
    /\ ex_pc = "card"
    /\ IF card_i > Len(doc[pno])
       THEN /\ ex_pc' = "page"
            /\ pno' = pno + 1
            /\ UNCHANGED <<card_i, log, parseVars>>
       ELSE Extracted(extract_card_text_ocr(doc[pno][card_i]))
    /\ UNCHANGED <<doc, units, out>>
    /\ UNCHANGED <<alignVars, fixVars, funVars>>

\* lines 1913-1961: parse_card_text has returned or raised.  No record: the
\* card is skipped.  A record: it gets its category and joins the units.  An
\* exception is caught nowhere and ends the run.
ExtractUnit ==
    /\ ex_pc = "parse"
    /\ pc = "done"
    /\ IF ret = ValueError
       THEN /\ ex_pc' = "ValueError"
            /\ UNCHANGED <<card_i, units, log>>
       ELSE IF ret = None
            THEN /\ ex_pc' = "card"
                 /\ card_i' = card_i + 1
                 /\ log' = Append(log, Logged(pno, card_i, "Failed to parse card"))
                 /\ UNCHANGED units
            ELSE /\ ex_pc' = "card"
                 /\ card_i' = card_i + 1
                 /\ units' = Append(units,
                        WithCategory(ret,
                            Categorised(split_category_subcategory(doc[pno][card_i].heading),
                                        ret.unitClass.s)))
                 /\ log' = Append(log, Logged(pno, card_i, "Parsed"))
    /\ card_text' = <<>> /\ card' = <<>> /\ lines' = <<>> /\ line_boxes' = <<>>
    /\ pc' = "idle" /\ has_formatting' = FALSE
    /\ header' = HeaderMissing /\ stat' = StatMissing /\ cursor' = 0
    /\ special_rules' = <<>> /\ temp_rules' = <<>> /\ description' = None
    /\ weapons' = <<>> /\ weapon_title' = <<>>
    /\ embedded_special_rules' = Unbound /\ pg' = NoGroups
    /\ w_rules' = <<>> /\ ammo_from_line' = None /\ ret' = Running
    /\ UNCHANGED <<doc, pno, out>>
    /\ UNCHANGED <<alignVars, fixVars, funVars>>

\* lines 1963-1975: the units are de-duplicated by id and returned
ExtractReturn ==
    /\ ex_pc = "dedupe"
    /\ out' = DedupeFrom(units, 1, {}, <<>>)
    /\ ex_pc' = "done"
    /\ UNCHANGED <<doc, pno, card_i, units, log>>
    /\ UNCHANGED <<alignVars, fixVars, parseVars, funVars>>

(***************************************************************************)
(* Documents                                                               *)
(***************************************************************************)
MaxCards == 2

RichRegion ==
    Region(<<Italic("Fearless"), Roman("___"), Italic("Slow"), Italic("> 7mm AP")>>, TRUE,
           <<<<"AB", "-", "5", "pts">>, <<"Vec,", "M4\",", "Q3">>, <<"Fearless">>, <<"6G1", "Gun">>, <<"R6\",", "A3+,", "D1">>, <<"Slow">>, <<">", "7mm", "AP">>, <<"R9\",", "A5+,", "D3">>>>,
           "VEHICLES - Tanks")

TwinRegion ==
    Region(<<>>, TRUE,
           <<<<"AB", "-", "7pls">>, <<"Inf", "(S),", "M4\",", "Q3">>>>,
           "")

OtherRegion ==
    Region(<<Roman("CD - 0/20 pts")>>, TRUE,
           <<<<"CD", "-", "0/20", "pts">>, <<"Inf,", "M4\",", "Q3">>>>,
           "AIRCRAFT")

NoWordsRegion ==
    Region(<<Roman("AB - 5 pts")>>, TRUE,
           <<>>,
           "INFANTRY")

NoImageRegion ==
    Region(<<Roman("AB - 5 pts")>>, FALSE,
           <<<<"AB", "-", "5", "pts">>, <<"Inf,", "M4\",", "Q3">>>>,
           "INFANTRY")

NoHeaderRegion ==
    Region(<<Roman("Crew")>>, TRUE,
           <<<<"Crew">>>>,
           "INFANTRY")

RaisingRegion ==
    Region(<<Roman("AB - 5 pts")>>, TRUE,
           <<<<"AB", "-", "5", "pts">>, <<"Inf,", "Mo\",", "Q3">>>>,
           "INFANTRY")

CommandRegion ==
    Region(<<Roman("EF - 5 pts")>>, TRUE,
           <<<<"EF", "-", "5", "pts">>, <<"Inf,", "M4\",", "Q3">>>>,
           "TACOMS - Command")

SupportRegion ==
    Region(<<Roman("GH - 5 pts")>>, TRUE,
           <<<<"GH", "-", "5", "pts">>, <<"Inf,", "M4\",", "Q3">>>>,
           "SUPPORT")

RegionPool ==
    { RichRegion,
      TwinRegion,
      OtherRegion,
      NoWordsRegion,
      NoImageRegion,
      NoHeaderRegion,
      RaisingRegion }

TwinBetweenDoc == <<<<RichRegion, OtherRegion, TwinRegion>>>>

TwinFirstDoc == <<<<TwinRegion, RichRegion>>, <<OtherRegion>>>>

SkippedDoc == <<<<NoWordsRegion, NoHeaderRegion>>, <<>>, <<OtherRegion>>>>

HeadingsDoc == <<<<CommandRegion>>, <<SupportRegion>>>>

AbortedDoc == <<<<NoWordsRegion, RaisingRegion, OtherRegion>>>>

LongDocs ==
    { TwinBetweenDoc,
      TwinFirstDoc,
      SkippedDoc,
      HeadingsDoc,
      AbortedDoc }

\* the cards cs on two pages, the first k of them on the first
TwoPages(cs, k) == <<SubSeq(cs, 1, k), SubSeq(cs, k + 1, Len(cs))>>

Docs ==
    UNION {{TwoPages(cs, k) : k \in 0..Len(cs)} : cs \in SeqsUpTo(RegionPool, MaxCards)}
        \cup LongDocs \cup {<<>>}

ExtractInit ==
    /\ doc \in Docs
    /\ ex_pc = "open"
    /\ pno = 0
    /\ card_i = 0
    /\ units = <<>>
    /\ out = <<>>
    /\ log = <<>>
    /\ AlignIdle
    /\ FixIdle
    /\ ParseIdle
    /\ FunIdle

ExtractNext ==
    \/ ExtractOpen
    \/ ExtractPage
    \/ ExtractCard
    \/ ParsePrepare
    \/ ParseHeader
    \/ ParseStat
    \/ ParseRule
    \/ ParseDescribe
    \/ ParseProfileLine
    \/ ParseNameLine
    \/ ParseOtherLine
    \/ ParseCollect
    \/ ParseEmit
    \/ ParseBuild
    \/ ExtractUnit
    \/ ExtractReturn

SpecExtract == ExtractInit /\ [][ExtractNext]_vars

(***************************************************************************)
(* The helper functions called on their own: fn is the function, fn_arg    *)
(* its argument and fn_res what it returned.                               *)
(***************************************************************************)
ResultOf(v) == [t |-> "returned", v |-> v]

MaxItems == 4
MaxLineLen == 5
MaxFragments == 4
MaxTokenLen == 4

\* lists of rule names for dedupe_preserve_order
RuleNames == {Chars("Fearless"), Chars("Brave"), Chars("Slow")}
DedupeInputs == SeqsUpTo(RuleNames, MaxItems)

\* rule lines for split_rules_smart
LineChars == {"a", ",", "(", ")", " "}
RuleLines ==
    SeqsUpTo(LineChars, MaxLineLen)
        \cup {Chars("Light Indirect (1), Fearless"), Chars("Slow), Indirect (1, 2)"),
              Chars("Smoke (3, (2)), Slow")}

\* rule lists for merge_fragmented_rules
Fragments == {Chars("Light"), Chars("Indirect"), Chars("(1)"), Chars("Armor Piercing"),
              Chars("Smoke (2)")}
FragmentLists == SeqsUpTo(Fragments, MaxFragments)

\* accuracy tokens for parse_acc
TokenChars == {"3", "+", "x", "X", "/", "*", " ", "a"}
Tokens ==
    SeqsUpTo(TokenChars, MaxTokenLen)
        \cup {Chars("3+/4+"), Chars("++/xx"), Chars("12+"), Chars("3+/4+/5+")}

\* strength tokens for parse_strength
StrengthChars == {"3", "+", "/", "[", "D", "]", " "}
StrengthTokens ==
    SeqsUpTo(StrengthChars, MaxTokenLen)
        \cup {Chars("[D3]"), Chars("3/3+"), Chars("12+"), Chars("3/3/3")}

FunCalls ==
    ({"dedupe_preserve_order"} \X DedupeInputs)
        \cup ({"split_rules_smart"} \X RuleLines)
        \cup ({"merge_fragmented_rules"} \X FragmentLists)
        \cup ({"parse_acc"} \X Tokens)
        \cup ({"parse_strength"} \X StrengthTokens)

FunInit ==
    /\ \E call \in FunCalls : fn = call[1] /\ fn_arg = call[2]
    /\ fn_res = Running
    /\ AlignIdle
    /\ FixIdle
    /\ ParseIdle
    /\ ExtractIdle

CallDedupe ==
    /\ fn = "dedupe_preserve_order"
    /\ fn_res = Running
    /\ fn_res' = ResultOf(dedupe_preserve_order(fn_arg))
    /\ UNCHANGED <<fn, fn_arg>>
    /\ UNCHANGED <<alignVars, fixVars, parseVars, extractVars>>

CallSplit ==
    /\ fn = "split_rules_smart"
    /\ fn_res = Running
    /\ fn_res' = ResultOf(split_rules_smart(fn_arg))
    /\ UNCHANGED <<fn, fn_arg>>
    /\ UNCHANGED <<alignVars, fixVars, parseVars, extractVars>>

CallMerge ==
    /\ fn = "merge_fragmented_rules"
    /\ fn_res = Running
    /\ fn_res' = ResultOf(merge_fragmented_rules(fn_arg))
    /\ UNCHANGED <<fn, fn_arg>>
    /\ UNCHANGED <<alignVars, fixVars, parseVars, extractVars>>

CallParseAcc ==
    /\ fn = "parse_acc"
    /\ fn_res = Running
    /\ fn_res' = ResultOf(parse_acc(fn_arg))
    /\ UNCHANGED <<fn, fn_arg>>
    /\ UNCHANGED <<alignVars, fixVars, parseVars, extractVars>>

CallParseStrength ==
    /\ fn = "parse_strength"
    /\ fn_res = Running
    /\ fn_res' = ResultOf(parse_strength(fn_arg))
    /\ UNCHANGED <<fn, fn_arg>>
    /\ UNCHANGED <<alignVars, fixVars, parseVars, extractVars>>

FunNext ==
    \/ CallDedupe
    \/ CallSplit
    \/ CallMerge
    \/ CallParseAcc
    \/ CallParseStrength

SpecFun == FunInit /\ [][FunNext]_vars

(***************************************************************************)
(* Claims about the aligner (checked under SpecAlign)                      *)
(***************************************************************************)
AlignDone == ocr_idx > Len(ocr_lines)

\* the PDF lines not taken by the OCR lines before the k-th
UnusedAt(k) == (1..Len(pdf_line_boxes)) \ {assigned[j] : j \in 1..(k - 1)}

\* the similarity of the k-th OCR line to the j-th PDF line
RatioTo(k, j) ==
    Ratio(normalize_for_matching(ocr_lines[k]),
          normalize_for_matching(pdf_line_boxes[j].text))

\* j is an unused PDF line of maximum ratio for the k-th OCR line
IsMaxUnused(k, j) ==
    /\ j \in UnusedAt(k)
    /\ \A q \in UnusedAt(k) : ~RatioGT(RatioTo(k, q), RatioTo(k, j))

\* C1: each PDF line index is consumed by at most one OCR line: no two
\* output lines take their formatting from the same PDF line, and each
\* output line corresponds to exactly one PDF line or to none.
C1_PdfLineConsumedAtMostOnce ==
    /\ Len(assigned) = Len(result)
    /\ \A k \in 1..Len(assigned) : assigned[k] \in 0..Len(pdf_line_boxes)
    /\ \A k, l \in 1..Len(assigned) :
          (k # l /\ assigned[k] # 0) => assigned[k] # assigned[l]
    /\ used_pdf_indices = {assigned[k] : k \in 1..Len(assigned)} \ {0}

\* C1 witness: two OCR lines are both matched, and the second would have
\* scored higher on the PDF line the first one consumed.
C1_Witness ==
    /\ AlignDone
    /\ Len(assigned) = 2
    /\ assigned[1] # 0
    /\ assigned[2] # 0
    /\ RatioGT(RatioTo(2, assigned[1]), RatioTo(2, assigned[2]))

\* C2: the result holds one LineBox per OCR line, in OCR order, with the
\* unmodified OCR text; its flags are those of a maximum-ratio unused PDF
\* line when that ratio strictly exceeds 0.6 (and that line is then marked
\* consumed), and are both false otherwise (ratio <= 0.6, no unused PDF
\* line, or a blank OCR line), in which case no PDF line is consumed.
C2_OneLineBoxPerOcrLine ==
    /\ Len(result) = Len(assigned)
    /\ Len(result) = ocr_idx - 1
    /\ AlignDone => Len(result) = Len(ocr_lines)
    /\ \A k \in 1..Len(result) :
          /\ result[k].text = ocr_lines[k]
          /\ IF /\ ~IsBlank(ocr_lines[k])
                /\ \E j \in UnusedAt(k) :
                      IsMaxUnused(k, j) /\ RatioGT(RatioTo(k, j), <<6, 10>>)
             THEN /\ IsMaxUnused(k, assigned[k])
                  /\ result[k].is_italic = pdf_line_boxes[assigned[k]].is_italic
                  /\ result[k].is_bold = pdf_line_boxes[assigned[k]].is_bold
                  /\ assigned[k] \in used_pdf_indices
             ELSE /\ assigned[k] = 0
                  /\ ~result[k].is_italic
                  /\ ~result[k].is_bold
    /\ Cardinality(used_pdf_indices)
          = Cardinality({k \in 1..Len(assigned) : assigned[k] # 0})

\* C2 witness: the first OCR line took an italic PDF line's flags, and the
\* second one's best unused PDF line has a ratio of exactly 0.6 and is
\* left unconsumed.
C2_Witness ==
    /\ AlignDone
    /\ Len(result) = 2
    /\ assigned[1] # 0
    /\ result[1].is_italic
    /\ assigned[2] = 0
    /\ \E j \in UnusedAt(2) :
          IsMaxUnused(2, j) /\ RatioEQ(RatioTo(2, j), <<6, 10>>)

\* C3: a second run on the same OCR list and PDF list produces the same
\* assignment and the same output as the first, and among several unused
\* PDF lines that tie for the maximum ratio the lowest-index one is chosen.
C3_AlignmentDeterministic ==
    /\ run > 1 =>
          /\ \A k \in 1..Len(result) :
                result[k] = first_result[k] /\ assigned[k] = first_assigned[k]
          /\ AlignDone => (result = first_result /\ assigned = first_assigned)
    /\ \A k \in 1..Len(assigned) :
          assigned[k] # 0 =>
             \A q \in UnusedAt(k) :
                RatioEQ(RatioTo(k, q), RatioTo(k, assigned[k])) => assigned[k] <= q

\* C3 witness: the second run has finished, and some OCR line was matched
\* while another unused PDF line tied with the one it took.
C3_Witness ==
    /\ run = 2
    /\ AlignDone
    /\ \E k \in 1..Len(assigned) :
          /\ assigned[k] # 0
          /\ \E q \in UnusedAt(k) :
                q # assigned[k] /\ RatioEQ(RatioTo(k, q), RatioTo(k, assigned[k]))

(***************************************************************************)
(* Claims about the corrector (checked under SpecFix)                      *)
(***************************************************************************)
\* C4: fix_ocr_errors_contextual is idempotent: called on its own output it
\* returns that output unchanged, for every line, lines with adjacent
\* repeated tokens such as ' lnf lnf ' included.
C4_CorrectorIdempotent ==
    Len(fix_out) >= 2 => fix_out[2] = fix_out[1]

(***************************************************************************)
(* Claims about the card parser (checked under SpecParse)                  *)
(***************************************************************************)
ParseDone == pc = "done"
Returned == ret.t = "unit"

\* C5: parse_card_text never raises: whatever the lines and their italic
\* flags, the call returns a unit record or None, also when the movement of
\* the stat line is a letter-form zero in either case.
C5_NeverRaises == ret.t \in {"running", "None", "unit"}

\* the searches of the code, on the lines they are made on
HeaderIsFound == FindHeader(lines).unit_name # None /\ FindHeader(lines).points # None
StatIsFound == StatAt(lines, header.header_idx, has_formatting) # {}

\* C6: the call returns None when no header form is found in the first
\* lines, or no stat line in the lines header_idx+1 .. header_idx+9; when
\* both are found it returns a record, whatever the other lines are.
C6_NoneOrRecord ==
    ParseDone /\ lines # <<>> =>
        IF ~HeaderIsFound THEN ret = None
        ELSE IF ~StatIsFound THEN ret = None
        ELSE Returned

\* C7: in a returned record no top-level weapon has a name that begins
\* with ">", also when the ">" line is the first weapon line of the card.
C7_NoVariantAtTopLevel ==
    Returned => \A k \in 1..Len(ret.weapons) : ~StartsWith(ret.weapons[k].name, ">")

\* a profile line, and one whose accuracy parses
IsProfile(text) == ReMatch(PROFILE_RE, ProfileNames, text).ok
ParsesAccuracy(text) ==
    IsProfile(text) /\ parse_acc(ReMatch(PROFILE_RE, ProfileNames, text).caps["acc"]) # None

\* line k of the card is a weapon name line, not italic
NameAt(k) == ~card[k].is_italic /\ IsWeaponName(card[k].text)

\* line k of the card is a name line "Base > Ammo" followed by a profile
BaseAmmoAt(k) ==
    /\ k + 1 <= Len(card)
    /\ NameAt(k)
    /\ HasChar(card[k].text, ">")
    /\ IsWeaponName(Strip(Before(card[k].text, ">")))
    /\ IsProfile(card[k + 1].text)
BaseName(k) == Strip(Before(card[k].text, ">"))
AmmoName(k) == Strip(After(card[k].text, ">"))
WeaponsNamed(name) == {i \in 1..Len(ret.weapons) : ret.weapons[i].name = name}
HasShot(w, name) == \E j \in 1..Len(w.shotTypes) : w.shotTypes[j].name = name

\* no later line of the card names Base on its own
NotNamedLater(k) == \A j \in (k + 1)..Len(card) : card[j].text # BaseName(k)

\* C8: a name line "Base > Ammo" followed by a profile yields a top-level
\* weapon named Base with a shot type named Ammo, and only one weapon of
\* that name (a weapon named Base that is there already is reused); the
\* combined name is no top-level weapon.
C8_BaseAmmoSplit ==
    Returned =>
        \A k \in 1..Len(card) :
            BaseAmmoAt(k) =>
                /\ \E i \in WeaponsNamed(BaseName(k)) : HasShot(ret.weapons[i], AmmoName(k))
                /\ NotNamedLater(k) => Cardinality(WeaponsNamed(BaseName(k))) = 1
                /\ WeaponsNamed(card[k].text) = {}

\* the weapon named on line j fails: no profile follows the name, or the
\* accuracy of the profile does not parse
FailsAt(j) ==
    /\ NameAt(j)
    /\ IF j + 1 > Len(card) THEN TRUE ELSE ~ParsesAccuracy(card[j + 1].text)

\* line k is a plain weapon name (no ">") followed by a profile that parses
PairAt(k) ==
    /\ k + 1 <= Len(card)
    /\ NameAt(k)
    /\ ~HasChar(card[k].text, ">")
    /\ ParsesAccuracy(card[k + 1].text)

\* C9: a weapon name without a profile, or with an accuracy that does not
\* parse, drops that weapon only: every later name and profile pair of the
\* card is emitted under its own name.
C9_FailureIsLocal ==
    Returned =>
        \A j \in 1..Len(card) : \A k \in (j + 1)..Len(card) :
            FailsAt(j) /\ PairAt(k) => WeaponsNamed(card[k].text) # {}

Sentinels == {Chars("xx"), Chars("++"), Chars("*")}
IsSimpleAccuracy(a) == a.t = "int" \/ (a.t = "str" /\ a.s \in Sentinels)
IsAccuracy(a) ==
    \/ IsSimpleAccuracy(a)
    \/ /\ a.t = "dict"
       /\ a.k1 = "stationary" /\ a.k2 = "moving"
       /\ IsSimpleAccuracy(a.v1) /\ IsSimpleAccuracy(a.v2)
AccuraciesOf(w) ==
    {w.accuracy} \cup {w.shotTypes[j].accuracy : j \in 1..Len(w.shotTypes)}

\* C10: every weapon and every shot type that is emitted, and so every one
\* of a returned record, has an accuracy that is an integer, one of the
\* sentinels xx, ++, *, or a stationary/moving pair of such values; a
\* profile whose accuracy is none of these is not emitted.
C10_AccuracyWellFormed ==
    /\ \A k \in 1..Len(weapons) : \A a \in AccuraciesOf(weapons[k]) : IsAccuracy(a)
    /\ Returned => ret.weapons = weapons

\* a record is returned for a card with a profile whose accuracy does not
\* parse, and a weapon of the record has a stationary/moving accuracy
C10_Witness ==
    /\ Returned
    /\ \E k \in 1..Len(card) : IsProfile(card[k].text) /\ ~ParsesAccuracy(card[k].text)
    /\ \E k \in 1..Len(ret.weapons) :
          \E a \in AccuraciesOf(ret.weapons[k]) : a.t = "dict"

(***************************************************************************)
(* Claims about the extraction run (checked under SpecExtract)             *)
(***************************************************************************)
ExtractDone == ex_pc = "done"

\* the index in units of the first unit with the id of units[k]
FirstWithId(k) == CHOOSE i \in 1..k : units[i].id = units[k].id
                                      /\ \A j \in 1..(i - 1) : units[j].id # units[k].id

\* the indices in units of the units that are retained, in increasing order
RECURSIVE RetainedFrom(_)
RetainedFrom(k) ==
    IF k > Len(units) THEN <<>>
    ELSE IF units[k].id # <<>> /\ FirstWithId(k) = k
         THEN <<k>> \o RetainedFrom(k + 1)
         ELSE RetainedFrom(k + 1)

\* the log lines about parsed cards, and the card a log line is about
ParsedLines == SelectSeq(log, LAMBDA l : l.message = "Parsed")
Before2(a, b) == a.page < b.page \/ (a.page = b.page /\ a.card < b.card)

\* C11: the list returned by extract_units_from_qur_ocr holds no two units
\* with the same id; the units are parsed in page order and then card order,
\* the unit retained for an id is the first one parsed with that id, the
\* later ones are dropped, and the retained units keep the order in which
\* they were parsed.
C11_FirstOccurrenceWins ==
    ExtractDone =>
        /\ \A i, j \in 1..Len(out) : i # j => out[i].id # out[j].id
        /\ Len(ParsedLines) = Len(units)
        /\ \A i, j \in 1..Len(ParsedLines) :
              i < j => Before2(ParsedLines[i], ParsedLines[j])
        /\ out = [k \in 1..Len(RetainedFrom(1)) |-> units[RetainedFrom(1)[k]]]

\* C11 witness: three units were parsed, the second has the id of the first
\* and is another record, and the first and the third are returned
C11_Witness ==
    /\ ExtractDone
    /\ Len(units) = 3
    /\ units[1].id = units[2].id
    /\ units[1] # units[2]
    /\ out = <<units[1], units[3]>>

\* the cards of the document in located order, page by page
RECURSIVE CardsFrom(_, _)
CardsFrom(p, i) ==
    IF p > Len(doc) THEN <<>>
    ELSE IF i > Len(doc[p]) THEN CardsFrom(p + 1, 1)
         ELSE <<[page |-> p, card |-> i]>> \o CardsFrom(p, i + 1)

\* the cards the log has a line about, in the order of the log
CardLines == SelectSeq(log, LAMBDA l : l.card # 0)
LoggedCards == [k \in 1..Len(CardLines) |-> [page |-> CardLines[k].page,
                                              card |-> CardLines[k].card]]

\* the run is over: it returned, or an exception ended it
ExtractEnded == ex_pc \in {"done", "ValueError", "RuntimeError"}

\* C12: a card whose extraction gives no text, or whose parse gives no
\* record, adds nothing to the units and does not end the run: when the run
\* is over every card of every page has been processed, in located order,
\* and the units are those of the cards that parsed.
C12_CardFailureIsolated ==
    ExtractEnded /\ doc # <<>> =>
        /\ LoggedCards = CardsFrom(1, 1)
        /\ Len(units) = Len(ParsedLines)

\* a card region is unreadable: no PDF characters or no OCR words
Unreadable(region) == region.chars = <<>> \/ region.words = <<>>

\* C13: for a card region that yields no PDF characters or no OCR words,
\* extract_card_text_ocr returns an empty text and an empty list of lines,
\* and the caller skips the card without parsing it.
C13_UnreadableIsSkipped ==
    /\ ex_pc = "card" /\ card_i <= Len(doc[pno]) /\ Unreadable(doc[pno][card_i])
          => extract_card_text_ocr(doc[pno][card_i]) = [text |-> <<>>, line_boxes |-> <<>>]
    /\ ex_pc = "parse" => ~Unreadable(doc[pno][card_i])

(***************************************************************************)
(* One more claim about the aligner (checked under SpecAlign)              *)
(***************************************************************************)
\* C20: the aligner is greedy and takes the OCR lines once, in order: a step
\* of a run decides the next OCR line only, it never gives that line a PDF
\* line that an earlier OCR line has consumed, however similar the two are,
\* and it leaves every earlier assignment and every earlier output line as
\* they were.
C20_GreedyOnePass ==
    [][run' = run =>
          /\ ocr_idx' = ocr_idx + 1
          /\ Len(assigned') = ocr_idx
          /\ Len(result') = ocr_idx
          /\ result'[ocr_idx].text = ocr_lines[ocr_idx]
          /\ assigned'[ocr_idx] \notin used_pdf_indices
          /\ used_pdf_indices \subseteq used_pdf_indices'
          /\ \A k \in 1..Len(assigned) :
                assigned'[k] = assigned[k] /\ result'[k] = result[k]]_vars

\* C20 witness: the second OCR line is more similar to the PDF line the
\* first one consumed than the first one is, and it did not get that line;
\* the first line has kept it
C20_Witness ==
    /\ AlignDone
    /\ Len(assigned) = 2
    /\ assigned[1] # 0
    /\ assigned[2] # assigned[1]
    /\ RatioGT(RatioTo(2, assigned[1]), RatioTo(1, assigned[1]))
    /\ result[1].is_bold = pdf_line_boxes[assigned[1]].is_bold
    /\ result[1].is_italic = pdf_line_boxes[assigned[1]].is_italic

(***************************************************************************)
(* More claims about the card parser (checked under SpecParse)             *)
(***************************************************************************)
NoDuplicates(rs) == \A i, j \in 1..Len(rs) : i # j => rs[i] # rs[j]

\* the rules rs are in the order of their first occurrence in the list all
InFirstSeenOrder(rs, all) ==
    /\ \A k \in 1..Len(rs) : \E m \in 1..Len(all) : all[m] = rs[k]
    /\ \A i, j \in 1..Len(rs) :
          i < j => (CHOOSE m \in 1..Len(all) : all[m] = rs[i] /\ \A n \in 1..(m - 1) : all[n] # rs[i])
                     < (CHOOSE m \in 1..Len(all) : all[m] = rs[j] /\ \A n \in 1..(m - 1) : all[n] # rs[j])

\* C14: in a returned record the specialRules of the unit, of every weapon
\* and of every shot type hold no name twice, and the unit's names are in
\* the order in which they were first seen: nothing that is done to a list
\* after its deduplication brings a duplicate back.
C14_NoDuplicateRules ==
    Returned =>
        /\ NoDuplicates(ret.specialRules)
        /\ InFirstSeenOrder(ret.specialRules, merge_fragmented_rules(special_rules))
        /\ \A k \in 1..Len(ret.weapons) :
              /\ NoDuplicates(ret.weapons[k].specialRules)
              /\ \A j \in 1..Len(ret.weapons[k].shotTypes) :
                    NoDuplicates(ret.weapons[k].shotTypes[j].specialRules)

\* the digits and slashes a text ends with
RECURSIVE CostSuffix(_)
CostSuffix(s) ==
    IF s = <<>> THEN <<>>
    ELSE IF s[Len(s)] \in Digits \cup {"/"}
         THEN Append(CostSuffix(SubSeq(s, 1, Len(s) - 1)), s[Len(s)])
         ELSE <<>>

\* the cost as it is written in the header that ends on line idx: what
\* stands before 'pts', on that line or, if 'pts' is alone, at the end of
\* the line before
BeforePts(ln) == Strip(SubSeq(Strip(ln), 1, Len(Strip(ln)) - 3))
WrittenCost(ls, idx) ==
    IF BeforePts(ls[idx]) # <<>> THEN CostSuffix(BeforePts(ls[idx]))
    ELSE CostSuffix(Strip(ls[idx - 1]))
EndsWithPts(ln) ==
    Len(Strip(ln)) >= 3 /\ Lower(SubSeq(Strip(ln), Len(Strip(ln)) - 2, Len(Strip(ln)))) = Chars("pts")

\* a header has just been found
HeaderJustFound == pc = "stat" /\ header.unit_name # None

\* C18: whichever header form is found, on one line or split over two or
\* three, a cost written as one number is stored as that integer and a cost
\* written 'A/B' is stored as the string 'A/B'.
C18_CostAsWritten ==
    HeaderJustFound /\ EndsWithPts(lines[header.header_idx]) =>
        header.points =
            IF HasChar(WrittenCost(lines, header.header_idx), "/")
            THEN StrV(WrittenCost(lines, header.header_idx))
            ELSE IntV(ParseInt(WrittenCost(lines, header.header_idx)))

(***************************************************************************)
(* Claims about the helper functions (checked under SpecFun)               *)
(***************************************************************************)
\* fn was called and has returned
HasReturned(f) == fn = f /\ fn_res # Running

\* the index of the first occurrence of x in the list s
FirstIndex(s, x) == CHOOSE k \in 1..Len(s) : s[k] = x /\ \A j \in 1..(k - 1) : s[j] # x

\* C15: dedupe_preserve_order returns exactly the distinct elements of its
\* input, ordered by their first occurrence in the input, so that
\* [Fearless, Brave, Fearless] gives [Fearless, Brave]; applying it to its own
\* result changes nothing.
C15_DedupePreservesOrder ==
    HasReturned("dedupe_preserve_order") =>
        /\ {fn_res.v[k] : k \in 1..Len(fn_res.v)} = {fn_arg[k] : k \in 1..Len(fn_arg)}
        /\ \A i, j \in 1..Len(fn_res.v) :
              i < j => FirstIndex(fn_arg, fn_res.v[i]) < FirstIndex(fn_arg, fn_res.v[j])
        /\ dedupe_preserve_order(fn_res.v) = fn_res.v
        /\ (fn_arg = <<Chars("Fearless"), Chars("Brave"), Chars("Fearless")>>
               => fn_res.v = <<Chars("Fearless"), Chars("Brave")>>)

\* C15 witness: the list [Fearless, Brave, Fearless] came back as
\* [Fearless, Brave]
C15_Witness ==
    /\ HasReturned("dedupe_preserve_order")
    /\ fn_arg = <<Chars("Fearless"), Chars("Brave"), Chars("Fearless")>>
    /\ fn_res.v = <<Chars("Fearless"), Chars("Brave")>>

\* the nesting depth of position k of a line: the parentheses opened before
\* k and not closed before k; a ')' that closes nothing is not counted
RECURSIVE NestingDepth(_, _)
NestingDepth(line, k) ==
    IF k <= 1 THEN 0
    ELSE IF line[k - 1] = "(" THEN NestingDepth(line, k - 1) + 1
    ELSE IF line[k - 1] = ")" /\ NestingDepth(line, k - 1) > 0
         THEN NestingDepth(line, k - 1) - 1
         ELSE NestingDepth(line, k - 1)

\* the commas of a line that lie outside every parenthesis
OutsideCommas(line) ==
    {k \in 1..Len(line) : line[k] = "," /\ NestingDepth(line, k) = 0}

\* the line cut at the positions cuts, from position k on
RECURSIVE CutFrom(_, _, _, _)
CutFrom(line, cuts, k, current) ==
    IF k > Len(line) THEN <<current>>
    ELSE IF k \in cuts THEN <<current>> \o CutFrom(line, cuts, k + 1, <<>>)
         ELSE CutFrom(line, cuts, k + 1, Append(current, line[k]))

\* the trimmed pieces of the cut line that are not empty, in order
Trimmed(pieces) == [k \in 1..Len(pieces) |-> Strip(pieces[k])]
TrimmedPieces(line, cuts) ==
    SelectSeq(Trimmed(CutFrom(line, cuts, 1, <<>>)), LAMBDA p : p # <<>>)

\* C16: split_rules_smart cuts a rule line only at commas of nesting depth 0,
\* never at a comma inside parentheses; what it returns are the trimmed pieces
\* in order, none of them empty; 'Light Indirect (1), Fearless' gives
\* ['Light Indirect (1)', 'Fearless'].
C16_SplitOutsideParentheses ==
    HasReturned("split_rules_smart") =>
        /\ \E cuts \in SUBSET OutsideCommas(fn_arg) :
              fn_res.v = TrimmedPieces(fn_arg, cuts)
        /\ \A k \in 1..Len(fn_res.v) :
              fn_res.v[k] # <<>> /\ Strip(fn_res.v[k]) = fn_res.v[k]
        /\ (fn_arg = Chars("Light Indirect (1), Fearless")
               => fn_res.v = <<Chars("Light Indirect (1)"), Chars("Fearless")>>)

\* the rules joined into entries: a set of breaks holds the indices after
\* which an entry ends; the rules of an entry are joined by single spaces
RECURSIVE JoinedFrom(_, _, _, _)
JoinedFrom(rules, breaks, k, current) ==
    IF k > Len(rules) THEN <<>>
    ELSE IF k = Len(rules) \/ k \in breaks
         THEN <<current \o rules[k]>> \o JoinedFrom(rules, breaks, k + 1, <<>>)
         ELSE JoinedFrom(rules, breaks, k + 1, current \o rules[k] \o <<" ">>)

\* rule k and rule k + 1 are in one entry
Merged(breaks, k) == k \notin breaks

\* the three fragments of a compound rule start at k: a capitalized word,
\* another one, and a parenthetical
CompoundAt(rules, k) ==
    /\ k + 2 <= Len(rules)
    /\ IsCapitalizedWord(rules[k])
    /\ IsCapitalizedWord(rules[k + 1])
    /\ IsParenthetical(rules[k + 2])

\* what the claim says of the entries made of the rules with these breaks
MergesFragmentsOnly(rules, breaks) ==
    /\ \A k \in 1..(Len(rules) - 1) :
          IsParenthetical(rules[k + 1]) => Merged(breaks, k)
    /\ \A k \in 1..(Len(rules) - 2) :
          CompoundAt(rules, k) => Merged(breaks, k) /\ Merged(breaks, k + 1)
    /\ \A k \in 1..(Len(rules) - 1) :
          Merged(breaks, k) => IsParenthetical(rules[k + 1]) \/ CompoundAt(rules, k)

\* C17: merge_fragmented_rules joins a lone parenthetical to the rule before
\* it, and joins a capitalized single word, a following single word and a
\* following parenthetical into one rule, so that ['Light', 'Indirect', '(1)']
\* gives ['Light Indirect (1)']; every other rule stays an entry of its own,
\* and the result holds all the text of the input.
C17_MergesFragmentsOnly ==
    HasReturned("merge_fragmented_rules") =>
        /\ \E breaks \in SUBSET (1..(Len(fn_arg) - 1)) :
              /\ fn_res.v = JoinedFrom(fn_arg, breaks, 1, <<>>)
              /\ MergesFragmentsOnly(fn_arg, breaks)
        /\ (fn_arg = <<Chars("Light"), Chars("Indirect"), Chars("(1)")>>
               => fn_res.v = <<Chars("Light Indirect (1)")>>)

\* a token 'N+': digits followed by one '+'; and the number N it is read as
IsNumberPlus(s) ==
    Len(s) >= 2 /\ s[Len(s)] = "+" /\ IsDigitStr(SubSeq(s, 1, Len(s) - 1))
\* a token of digits followed by any number of '+', none included
IsNumberPluses(s) ==
    \E d \in 1..Len(s) : IsDigitStr(SubSeq(s, 1, d)) /\ \A k \in (d + 1)..Len(s) : s[k] = "+"
NumberOf(s) == ParseInt(SelectSeq(s, LAMBDA c : c # "+"))

\* the tokens with exactly one '/', and their two parts
OneSlash(s) == Cardinality({k \in 1..Len(s) : s[k] = "/"}) = 1
SlashAt(s) == CHOOSE k \in 1..Len(s) : s[k] = "/"
BeforeSlash(s) == SubSeq(s, 1, SlashAt(s) - 1)
AfterSlash(s) == SubSeq(s, SlashAt(s) + 1, Len(s))

\* the value of a token that is not a pair, as the claim words it: 'N+' is
\* N, a sentinel is itself, anything else has no value
WordedValue(s) ==
    IF IsNumberPlus(s) THEN IntV(NumberOf(s))
    ELSE IF s \in Sentinels THEN StrV(s)
    ELSE None
WordedAccuracy(s) ==
    IF WordedValue(s) # None THEN WordedValue(s)
    ELSE IF OneSlash(s) /\ WordedValue(BeforeSlash(s)) # None
                        /\ WordedValue(AfterSlash(s)) # None
         THEN PairV("stationary", WordedValue(BeforeSlash(s)),
                    "moving", WordedValue(AfterSlash(s)))
         ELSE None

\* C19 as worded: parse_acc maps 'N+' to the integer N, 'A/B' to the pair of
\* the values of A and B, each an integer or a sentinel, passes the sentinels
\* 'xx', '++' and '*' through unchanged, and returns None for any other token.
C19_AccuracyAsWorded ==
    HasReturned("parse_acc") => fn_res.v = WordedAccuracy(fn_arg)

\* the value of a token that is not a pair, as the code reads it: white
\* space around it is ignored, 'x' and 'xx' in either letter case are the
\* sentinel 'xx', and digits need no '+' and may have several
ReadValue(s) ==
    IF Lower(Strip(s)) \in {Chars("x"), Chars("xx")} THEN StrV(Chars("xx"))
    ELSE IF Strip(s) \in Sentinels THEN StrV(Strip(s))
    ELSE IF IsNumberPluses(Strip(s)) THEN IntV(NumberOf(Strip(s)))
    ELSE None
ReadAccuracy(s) ==
    IF ReadValue(s) # None THEN ReadValue(s)
    ELSE IF OneSlash(s) /\ ReadValue(BeforeSlash(Strip(s))) # None
                        /\ ReadValue(AfterSlash(Strip(s))) # None
         THEN PairV("stationary", ReadValue(BeforeSlash(Strip(s))),
                    "moving", ReadValue(AfterSlash(Strip(s))))
         ELSE None

\* C19: parse_acc ignores white space around the token and around the parts
\* of a pair; it maps digits followed by any number of '+', none included, to
\* the integer, maps 'x' and 'xx' in either letter case to the sentinel 'xx',
\* passes '++' and '*' through unchanged, maps 'A/B' whose two parts have
\* such values to the pair {stationary, moving} of the two values, never to
\* a single value, and returns None for every other token.
C19_AccuracyAsRead ==
    HasReturned("parse_acc") =>
        /\ fn_res.v = ReadAccuracy(fn_arg)
        /\ (OneSlash(fn_arg) /\ fn_res.v # None =>
               /\ fn_res.v.t = "dict"
               /\ IsSimpleAccuracy(fn_res.v.v1)
               /\ IsSimpleAccuracy(fn_res.v.v2))

\* C19 witness: the token '3+/4+' came back as the pair of 3 and 4
C19_Witness ==
    /\ HasReturned("parse_acc")
    /\ fn_arg = Chars("3+/4+")
    /\ fn_res.v = PairV("stationary", IntV(3), "moving", IntV(4))

(***************************************************************************)
(* The scan over the lines after the stat block                            *)
(***************************************************************************)
\* the characters of a text other than spaces
Unspaced(s) == SelectSeq(s, LAMBDA c : c # " ")
\* the text from the cursor to the end of the card
RestOf(ls, c) == Unspaced(Join(Slice(ls, c, Len(ls)), <<>>))
IsTail(a, b) == Len(a) <= Len(b) /\ a = Slice(b, Len(b) - Len(a) + 1, Len(b))
\* the positions of parse_card_text from the special rules on
Scanning(p) == p \in {"rules", "describe", "weapon", "collect", "done"}

\* C21: from the special rules on the cursor never decreases, and the text
\* from the cursor to the end of the card, which is what the later phases
\* still examine, is the end of what it was one step before: no text that
\* an earlier phase has passed comes back in front of the cursor, the pass
\* that splits an italic line included.
C21_ForwardScan ==
    [][Scanning(pc) /\ Scanning(pc') =>
          /\ cursor' >= cursor
          /\ IsTail(RestOf(lines', cursor'), RestOf(lines, cursor))]_vars

(***************************************************************************)
(* Ammunition variants and their base weapons                              *)
(***************************************************************************)
IsDigitAt(s, k) == k <= Len(s) /\ s[k] \in Digits
RECURSIVE DigitsEnd(_, _)
DigitsEnd(s, k) == IF IsDigitAt(s, k + 1) THEN DigitsEnd(s, k + 1) ELSE k
IsCaliberAt(s, k) ==
    /\ IsDigitAt(s, k)
    /\ DigitsEnd(s, k) + 2 <= Len(s)
    /\ s[DigitsEnd(s, k) + 1] = "m"
    /\ s[DigitsEnd(s, k) + 2] = "m"
LeastOf(S) == CHOOSE i \in S : \A j \in S : i <= j
GreatestOf(S) == CHOOSE i \in S : \A j \in S : j <= i
\* the first run of digits followed by 'mm' in a text, empty if there is none
CaliberToken(s) ==
    IF \E k \in 1..Len(s) : IsCaliberAt(s, k)
    THEN Slice(s, LeastOf({k \in 1..Len(s) : IsCaliberAt(s, k)}),
               DigitsEnd(s, LeastOf({k \in 1..Len(s) : IsCaliberAt(s, k)})) + 2)
    ELSE <<>>
IsVariantName(name) == StartsWith(name, ">")
\* the weapons a '>' line can belong to
BasesFor(ws, title) ==
    {i \in 1..Len(ws) :
        /\ ~IsVariantName(ws[i].name)
        /\ CaliberToken(title) # <<>> => CaliberToken(ws[i].name) = CaliberToken(title)}
\* the weapon list ws with one more shot type, named shot_name, at weapon b
GainsShot(ws, after, b, shot_name) ==
    /\ Len(after) = Len(ws)
    /\ \A i \in 1..Len(ws) : i # b => after[i] = ws[i]
    /\ [after[b] EXCEPT !.shotTypes = ws[b].shotTypes] = ws[b]
    /\ Len(after[b].shotTypes) = Len(ws[b].shotTypes) + 1
    /\ SubSeq(after[b].shotTypes, 1, Len(ws[b].shotTypes)) = ws[b].shotTypes
    /\ after[b].shotTypes[Len(after[b].shotTypes)].name = shot_name
\* a weapon whose name line begins with '>' and whose profile has been read
\* is placed
VariantPlaced ==
    /\ pc = "collect"
    /\ pc' = "weapon"
    /\ IsVariantName(weapon_title')
    /\ parse_acc(pg["acc"]) # None

\* C22: when a '>' line with its profile is placed and the weapons added so
\* far include non-variant weapons with the caliber token of the '>' line
\* (any non-variant weapon when the '>' line has no caliber token), the
\* line becomes one more shot type of the most recently added of them, and
\* nothing else in the weapon list changes.
C22_VariantJoinsItsBase ==
    [][VariantPlaced /\ BasesFor(weapons, weapon_title') # {} =>
          GainsShot(weapons, weapons', GreatestOf(BasesFor(weapons, weapon_title')),
                    Strip(Slice(weapon_title', 2, Len(weapon_title'))))]_vars

\* C22 witness: the card is parsed, its first weapon has got a shot type of
\* its own caliber that was read after a later weapon of another caliber,
\* and that later weapon has got a shot type without a caliber
C22_Witness ==
    /\ ParseDone
    /\ Returned
    /\ \E i, j \in 1..Len(ret.weapons) :
          /\ i < j
          /\ CaliberToken(ret.weapons[i].name) # <<>>
          /\ CaliberToken(ret.weapons[j].name) # <<>>
          /\ CaliberToken(ret.weapons[i].name) # CaliberToken(ret.weapons[j].name)
          /\ \E k \in 1..Len(ret.weapons[i].shotTypes) :
                CaliberToken(ret.weapons[i].shotTypes[k].name)
                    = CaliberToken(ret.weapons[i].name)
          /\ \E k \in 1..Len(ret.weapons[j].shotTypes) :
                CaliberToken(ret.weapons[j].shotTypes[k].name) = <<>>

(***************************************************************************)
(* Italic lines that look like weapon names                                *)
(***************************************************************************)
\* the text is that of an italic line of the card that matches the weapon
\* name pattern, and of no line of the card that is not italic
IsItalicName(text) ==
    /\ \E k \in 1..Len(card) :
          card[k].is_italic /\ IsWeaponName(card[k].text) /\ Strip(card[k].text) = text
    /\ \A k \in 1..Len(card) : Strip(card[k].text) = text => card[k].is_italic
\* the weapon loop is at an italic line that matches the weapon name pattern
AtItalicName ==
    /\ pc = "weapon"
    /\ cursor <= Len(lines)
    /\ cursor <= Len(line_boxes)
    /\ line_boxes[cursor].is_italic
    /\ ReMatch(WEAPON_NAME_RE, WeaponNames, CleanedLine(lines[cursor])).ok
\* C23 as worded: no weapon entry is named by an italic line that matches
\* the weapon name pattern.
C23_ItalicNameStartsNoWeapon ==
    \A i \in 1..Len(weapons) : ~IsItalicName(weapons[i].name)

\* C23: the weapon loop passes an italic line that matches the weapon name
\* pattern without a change to the weapons or the weapon title and without
\* reading the line after it; the text of such a line becomes the title of a
\* weapon only when it is the last special rule of the weapon before an
\* unnamed profile, from which it is taken away.
C23_ItalicNameOnlyFromRule ==
    [][/\ AtItalicName =>
            /\ weapons' = weapons
            /\ weapon_title' = weapon_title
            /\ cursor' = cursor + 1
            /\ pc' = "weapon"
       /\ pc = "weapon" /\ pc' = "collect" /\ IsItalicName(weapon_title') =>
            /\ LastRuleIsName(weapons)
            /\ weapon_title' = weapons[Len(weapons)].specialRules[
                                   Len(weapons[Len(weapons)].specialRules)]
            /\ weapons' = PopLastRule(weapons)]_vars

\* C23 witness: the card is parsed; one italic name line of it was the last
\* rule of a weapon and names the weapon after it, another one was passed
\* by the weapon loop and names nothing
C23_Witness ==
    /\ ParseDone
    /\ Returned
    /\ \E i \in 1..Len(ret.weapons) : IsItalicName(ret.weapons[i].name)
    /\ \E k \in 1..Len(card) :
          /\ card[k].is_italic
          /\ IsWeaponName(card[k].text)
          /\ \A i \in 1..Len(ret.weapons) :
                /\ ret.weapons[i].name # Strip(card[k].text)
                /\ ret.weapons[i].shotTypes = <<>>

(***************************************************************************)
(* The letter forms of zero                                                *)
(***************************************************************************)
\* the stat line has just been read and its movement is the letter O, in
\* either case
LetterZeroMovementRead ==
    /\ pc = "stat"
    /\ stat'.found
    /\ Contains(Lower(lines[stat'.stat_i]), " mo\"")
\* a profile whose range is the letter O, in either case, has just been
\* made a weapon or a shot type
LetterZeroRangePlaced ==
    /\ pc = "collect"
    /\ pc' = "weapon"
    /\ Lower(pg["range"]) = <<"o">>
\* the ranges of the weapons and shot types that a step has added
AddedRanges(ws, after) ==
    {after[i].range : i \in (Len(ws) + 1)..Len(after)}
        \cup {after[i].shotTypes[Len(after[i].shotTypes)].range :
                i \in {j \in 1..Len(ws) :
                         /\ j <= Len(after)
                         /\ Len(after[j].shotTypes) > Len(ws[j].shotTypes)}}

\* C24: a movement written as the letter O, in either letter case, is
\* stored as the integer 0 and the parse goes on; a weapon or shot type made
\* from a profile whose range is the letter O, in either letter case, has
\* the range 0.
C24_LetterZeroIsZero ==
    [][/\ LetterZeroMovementRead =>
            /\ stat'.stats.movement = IntV(0)
            /\ ret' = Running
       /\ LetterZeroRangePlaced => AddedRanges(weapons, weapons') \subseteq {0}]_vars
\* the range half of C24 alone
LetterZeroRangeIsZero ==
    [][LetterZeroRangePlaced => AddedRanges(weapons, weapons') \subseteq {0}]_vars
LetterZeroRangeSeen ==
    /\ ParseDone
    /\ Returned
    /\ \E i \in 1..Len(ret.weapons) : ret.weapons[i].range = 0

(***************************************************************************)
(* parse_strength                                                          *)
(***************************************************************************)
\* dice notation: '[D', digits, ']'
IsDiceNotation(s) ==
    /\ Len(s) >= 4
    /\ s[1] = "["
    /\ s[2] = "D"
    /\ s[Len(s)] = "]"
    /\ IsDigitStr(SubSeq(s, 3, Len(s) - 1))
\* the kinds of value the claim lists
IsStrengthValue(v) ==
    \/ v = None
    \/ v.t = "int"
    \/ v.t = "dict" /\ v.k1 = "normal" /\ v.k2 = "halfRange"
    \/ v.t = "str" /\ IsDiceNotation(v.s)

\* C25: what parse_strength returns is an integer, a pair {normal,
\* halfRange}, a string in dice notation or None; for a single value 'N+'
\* it is the integer N, the '+' being stripped as it is for the parts of a
\* pair.
C25_StrengthValues ==
    HasReturned("parse_strength") =>
        /\ IsStrengthValue(fn_res.v)
        /\ IsNumberPlus(Strip(fn_arg)) => fn_res.v = IntV(NumberOf(Strip(fn_arg)))
\* a pair whose part is 'N+' has the integer N for that part
PairPartIsStripped ==
    HasReturned("parse_strength") /\ fn_arg = Chars("3/3+") =>
        fn_res.v = PairV("normal", IntV(3), "halfRange", IntV(3))

(***************************************************************************)
(* The buffered lines: special rules and description                       *)
(***************************************************************************)
\* the fragments from i on, joined by spaces
RunFrom(texts, i) == Join(Slice(texts, i, Len(texts)), <<" ">>)
IsLongSentence(joined) ==
    Len(joined) > 20 /\ joined[Len(joined)] \in {".", ")"}
SentenceOpeners == {Chars("All"), Chars("The"), Chars("Each"), Chars("When"),
                    Chars("If"), Chars("Any"), Chars("This")}
\* a capital letter and lower-case letters
IsCapitalisedWord(s) ==
    /\ Len(s) >= 2
    /\ s[1] \in Uppers
    /\ \A k \in 2..Len(s) : s[k] \in Lowers
\* spaces, if any, and a part in parentheses with no ')' inside
IsParenthesised(s) ==
    /\ LStrip(s) # <<>>
    /\ Len(LStrip(s)) >= 3
    /\ LStrip(s)[1] = "("
    /\ LStrip(s)[Len(LStrip(s))] = ")"
    /\ \A k \in 2..(Len(LStrip(s)) - 1) : LStrip(s)[k] # ")"
\* the form of a special rule's name: 'Fearless', 'Indirect (1)'
IsRuleName(s) ==
    \/ IsCapitalisedWord(s)
    \/ \E e \in 2..Len(s) :
          IsCapitalisedWord(SubSeq(s, 1, e)) /\ IsParenthesised(SubSeq(s, e + 1, Len(s)))
\* the description can start at fragment i, as the claim words it
DescribesAsWorded(texts, i) ==
    IsLongSentence(RunFrom(texts, i)) /\ texts[i] \in SentenceOpeners
\* the description can start at fragment i
Describes(texts, i) ==
    /\ Len(texts) - i + 1 >= 4
    /\ IsLongSentence(RunFrom(texts, i))
    /\ ~IsRuleName(texts[i]) \/ texts[i] \in SentenceOpeners
DescribedFrom(texts) == {i \in 1..Len(texts) : Describes(texts, i)}
\* the buffered lines are classified and no separator is left in front of
\* the cursor, so that no second description block can follow
BufferClassified ==
    /\ pc \in {"rules", "describe"}
    /\ pc' = "weapon"
    /\ temp_rules # <<>>
    /\ \A k \in cursor..Len(lines) : ~IsSeparator(lines[k])

\* the list s begins with the list p
BeginsWith(s, p) == Len(p) <= Len(s) /\ SubSeq(s, 1, Len(p)) = p

KnownCategories == {Chars("TACOMS"), Chars("Infantry"), Chars("Vehicles"),
                    Chars("Aircraft"), Chars("Emplacements"), Chars("Support"),
                    Chars("Scenario")}
\* the part of a heading before ' - ', the whole heading if it has none
HeadingCategory(heading) ==
    IF \E k \in 1..(Len(heading) - 2) : SubSeq(heading, k, k + 2) = Chars(" - ")
    THEN Strip(SubSeq(heading, 1,
            LeastOf({k \in 1..(Len(heading) - 2) :
                        SubSeq(heading, k, k + 2) = Chars(" - ")}) - 1))
    ELSE Strip(heading)
\* the known category names a heading gives, whatever the case of its letters
KnownIn(heading) ==
    {name \in KnownCategories : Lower(name) = Lower(HeadingCategory(heading))}
\* the category of a type token
TypeCategory(unit_class) ==
    IF Contains(unit_class, "Inf") THEN Chars("Infantry")
    ELSE IF Contains(unit_class, "Vec") THEN Chars("Vehicles")
    ELSE IF Contains(unit_class, "Air") THEN Chars("Aircraft")
    ELSE Chars("Infantry")
Disagrees(name, unit_class) ==
    name \in {Chars("Infantry"), Chars("Vehicles"), Chars("Aircraft")}
        /\ name # TypeCategory(unit_class)
CategoryFor(heading, unit_class) ==
    IF \E name \in KnownIn(heading) : ~Disagrees(name, unit_class)
    THEN CHOOSE name \in KnownIn(heading) : ~Disagrees(name, unit_class)
    ELSE TypeCategory(unit_class)
\* a unit has just got its category
UnitCategorised == ex_pc = "parse" /\ Len(units') = Len(units) + 1

\* C27: the category of a unit is the known category name its heading
\* gives, when there is one and it does not disagree with the unit's type
\* token, and otherwise the category of the type token; under the heading
\* 'TACOMS - Command' the category is 'TACOMS' and the subcategory 'Command'.
C27_CategoryOfUnit ==
    [][UnitCategorised =>
          /\ units'[Len(units')].category =
                StrV(CategoryFor(doc[pno][card_i].heading,
                                 units'[Len(units')].unitClass.s))
          /\ doc[pno][card_i].heading = Chars("TACOMS - Command") =>
                /\ units'[Len(units')].category = StrV(Chars("TACOMS"))
                /\ units'[Len(units')].subcategory = StrV(Chars("Command"))]_vars
\* the same without the heading 'TACOMS'
CategoryOfOtherUnits ==
    [][UnitCategorised /\ KnownIn(doc[pno][card_i].heading) # {Chars("TACOMS")} =>
          units'[Len(units')].category =
                StrV(CategoryFor(doc[pno][card_i].heading,
                                 units'[Len(units')].unitClass.s))]_vars

(***************************************************************************)
(* The tokens embedded in weapon names                                     *)
(***************************************************************************)
EmbeddedTokens == {Chars("Turret"), Chars("No CC"), Chars("Multi-Gun")}
\* the text s holds the text p
Holds(s, p) ==
    \E k \in 1..(Len(s) - Len(p) + 1) : SubSeq(s, k, k + Len(p) - 1) = p
HasRule(w, rule) == \E k \in 1..Len(w.specialRules) : w.specialRules[k] = rule
\* the lines of the card that hold the token
LinesWith(token) == {k \in 1..Len(card) : Holds(card[k].text, token)}

\* C28: when an embedded token stands in one line of the card only, and this
\* line is a weapon name line, the weapons of the record that have the token
\* among their special rules are named by that line: the token is a rule of
\* no other weapon, a later profile without a name line included.
C28_EmbeddedTokenStays ==
    ParseDone /\ Returned =>
        \A token \in EmbeddedTokens : \A k \in LinesWith(token) :
            LinesWith(token) = {k} /\ ~card[k].is_italic /\ IsWeaponName(card[k].text) =>
                \A i \in 1..Len(ret.weapons) :
                    HasRule(ret.weapons[i], token) =>
                        Holds(card[k].text, ret.weapons[i].name)

(***************************************************************************)
(* The text list and the formatting list                                   *)
(***************************************************************************)
\* the line is the text of the box, as it is, with its quotation marks
\* normalised, with its accuracy corrected, or both
IsLineOf(ln, box) ==
    ln \in {box.text, norm(box.text), FixAtPlus(box.text), FixAtPlus(norm(box.text))}
\* the positions at which the italic flags are consulted
FlagsConsulted == pc \in {"rules", "describe", "weapon", "collect"}

\* C29: on a card with formatting, wherever the italic flags are consulted,
\* the two lists have the same length and lines[i] is the text of
\* line_boxes[i] for every i, also after the pass that merges the fragments
\* of weapon names and the pass that splits italic lines.
C29_ListsAligned ==
    FlagsConsulted /\ has_formatting =>
        /\ Len(lines) = Len(line_boxes)
        /\ \A i \in 1..Len(lines) : IsLineOf(lines[i], line_boxes[i])
\* the same for the cards on which no fragments of weapon names are merged
NothingMerged ==
    Len(Prepared(TextsOf(KeptBoxes(card_text, card)), TRUE))
        = Len(KeptBoxes(card_text, card))
AlignedUnlessMerged ==
    FlagsConsulted /\ has_formatting /\ NothingMerged =>
        /\ Len(lines) = Len(line_boxes)
        /\ \A i \in 1..Len(lines) : IsLineOf(lines[i], line_boxes[i])

(***************************************************************************)
(* Termination                                                             *)
(***************************************************************************)
\* the positions inside the loops of parse_card_text
InLoops(p) == p \in {"rules", "describe", "weapon", "collect"}
\* a step that ends the rule collection of a weapon and goes back to the
\* weapon loop, or that leaves the special rules for the weapons
LeavesLoop == pc # "weapon" /\ pc' = "weapon"

\* C30: parse_card_text ends on every card: every turn of the loop over the
\* special rules, of the loop over the weapons and of the loop that collects
\* the rules of a weapon moves the cursor forward or leaves its loop, the
\* cursor never moves back and never goes further than two past the last
\* line, and in the end the call returns or raises.
C30_Terminates ==
    /\ [][InLoops(pc) /\ InLoops(pc') =>
             /\ cursor' >= cursor
             /\ ~LeavesLoop => cursor' > cursor
             /\ cursor' <= Len(lines') + 2]_vars
    /\ <>(pc = "done")

\* C30 witness: the call has returned a unit after turns of all three loops:
\* the unit has special rules and a weapon with rules of its own, and the
\* cursor is past the last line
C30_Witness ==
    /\ ParseDone
    /\ Returned
    /\ cursor > Len(lines)
    /\ ret.specialRules # <<>>
    /\ \E i \in 1..Len(ret.weapons) : ret.weapons[i].specialRules # <<>>

====
